---- MODULE Spec2Model ----
(***************************************************************************)
(* Batch profile import of the ID repository: POST /api/people             *)
(* (api/index.ts), its collaborators (image storage, Bio Generator, Roster *)
(* Lookup, relational store) and the Cloudflare worker variant             *)
(* (worker/index.ts).                                                      *)
(*                                                                         *)
(* One request is followed from its arrival to its response.  The handler  *)
(* is an async function: every action below is one run-to-completion       *)
(* segment of it, from the settling of one awaited promise to the next     *)
(* await.  The async callbacks that Promise.all runs concurrently are the  *)
(* entries of `tasks`; any of them may take the next step.                 *)
(***************************************************************************)
EXTENDS Integers, Sequences, FiniteSets, TLC

\* ------------------------------------------------------------------ bounds
\* Longest request body (number of submissions in one batch).
MaxBatch == 2

\* ------------------------------------------------------- program constants
STAFF == "Staff"
STUDENT == "Student"
PARENT == "Parent/Guardian"

PersonCategory == {STAFF, STUDENT, PARENT}

fallbackBio == <<"A valued member of our community.">>

\* ------------------------------------------------------ JavaScript values
\* A JavaScript value as far as the handler tells values apart: its typeof
\* and, for a number, the number.
Num(n) == [t |-> "number", v |-> n]

Undefined == [t |-> "undefined", v |-> 0]

\* Object.prototype, which every object literal inherits from.
ObjectPrototype == [t |-> "object", v |-> 0]

\* A function inherited from Object.prototype (constructor, toString, ...).
InheritedFunction == [t |-> "function", v |-> 0]

\* null, as JSON.stringify writes a function that sits in an array.
JsonNull == [t |-> "null", v |-> 0]

\* Boolean(x), the predicate of .filter(Boolean).
Truthy(x) ==
    \/ x.t \in {"object", "function"}
    \/ x.t = "number" /\ x.v # 0

\* An optional array property of the request body: absent, or an array.
Absent == [present |-> FALSE, items |-> <<>>]

Arr(s) == [present |-> TRUE, items |-> s]

\* An optional string property (role?, class?) or nullable column: missing
\* (undefined, NULL), or a string.
NoString == [present |-> FALSE, value |-> ""]

Str(v) == [present |-> TRUE, value |-> v]

\* x || [] for an optional array (an array, even empty, is truthy).
OrEmpty(a) == IF a.present THEN a.items ELSE <<>>

\* Own-property names that resolve on a plain object although they were
\* never assigned: the properties of Object.prototype.
InheritedKeys == {"__proto__", "constructor"}

\* obj[key] on an object literal whose own properties are DOMAIN obj.
GetProperty(obj, key) ==
    IF key \in DOMAIN obj THEN Num(obj[key])
    ELSE IF key = "__proto__" THEN ObjectPrototype
    ELSE IF key \in InheritedKeys THEN InheritedFunction
    ELSE Undefined

\* obj[key] = n on an object literal: "__proto__" is an accessor of
\* Object.prototype whose setter ignores a number, any other key becomes
\* (or overwrites) an own property.
SetProperty(obj, key, n) ==
    IF key = "__proto__" THEN obj
    ELSE [k \in (DOMAIN obj) \cup {key} |-> IF k = key THEN n ELSE obj[k]]

\* {} : no own property.
EmptyObject == [k \in {} |-> 0]

\* ------------------------------------------------------------- sequences
RECURSIVE Uniq(_, _)
\* [...new Set(s)]: the first occurrence of every value, in order.
Uniq(s, seen) ==
    IF s = <<>> THEN <<>>
    ELSE IF Head(s) \in seen THEN Uniq(Tail(s), seen)
    ELSE <<Head(s)>> \o Uniq(Tail(s), seen \cup {Head(s)})

Range(s) == {s[i] : i \in 1..Len(s)}

Map(s, F(_)) == [i \in 1..Len(s) |-> F(s[i])]

\* String.prototype.trim on a text given as its sequence of characters.
RECURSIVE TrimStart(_)
TrimStart(s) == IF s # <<>> /\ Head(s) = " " THEN TrimStart(Tail(s)) ELSE s

RECURSIVE TrimEnd(_)
TrimEnd(s) ==
    IF s # <<>> /\ s[Len(s)] = " " THEN TrimEnd(SubSeq(s, 1, Len(s) - 1)) ELSE s

Trim(s) == TrimEnd(TrimStart(s))

\* ------------------------------------------------------------ input sets
\* tempId values a submission may carry.  The form draws them with
\* crypto.randomUUID(); the endpoint takes whatever string the body holds.
TempIds == {"t1", "t2", "__proto__"}

\* tempId values of Student submissions (the handler never reads a
\* student's tempId).
StudentTempIds == {"t1", "t2"}

\* guardianIds and guardianTempIds of a Student submission: neither; both
\* with repeated entries, one id being the id the next insert assigns;
\* references that name no submission of the batch ("t3", and two names
\* Object.prototype defines).
GuardianRefs ==
    {[guardianIds |-> Absent, guardianTempIds |-> Absent],
     [guardianIds |-> Arr(<<2, 1, 2>>), guardianTempIds |-> Arr(<<"t2", "t1", "t2">>)],
     [guardianIds |-> Arr(<<1>>), guardianTempIds |-> Arr(<<"t3", "constructor">>)],
     [guardianIds |-> Absent, guardianTempIds |-> Arr(<<"__proto__", "t1">>)]}

\* NewPersonData, restricted to the properties the import reads to link
\* guardians.
NewPersonData ==
    {[tempId |-> t, category |-> c, guardianIds |-> Absent,
      guardianTempIds |-> Absent,
      role |-> Str(IF c = STAFF THEN "Teacher" ELSE "Parent/Guardian"),
      class |-> NoString] : t \in TempIds, c \in {STAFF, PARENT}}
    \cup
    {[tempId |-> t, category |-> STUDENT, guardianIds |-> g.guardianIds,
      guardianTempIds |-> g.guardianTempIds,
      role |-> NoString, class |-> Str("Grade 5")] :
        t \in StudentTempIds, g \in GuardianRefs}

\* Request bodies: arrays of 0..MaxBatch submissions.
Bodies == UNION {[1..n -> NewPersonData] : n \in 0..MaxBatch}

\* A parsed request body (the value of await c.req.json()): an array, or
\* some other JSON value.
JsonArray(items) == [kind |-> "array", items |-> items]

NotArrays == {[kind |-> "object", items |-> <<>>], [kind |-> "null", items |-> <<>>]}

JsonBodies == {JsonArray(body) : body \in Bodies} \cup NotArrays

\* response.text of the Bio Generator, as a sequence of characters; <<>> is
\* also what `response.text ?? ''` makes of a missing text.
BioTexts == {<<>>, <<" ", " ">>, <<" ", "A", " ", "b", " ">>}

\* Values of Math.random(), in units of 1/100000.
RandomValues == {99999}

\* Identifier found in column M of the roster sheet.
RosterId == "R-1042"

\* --------------------------------------------------- handler, pure parts
\* How a call ended: it returned value, or it threw an Error whose message
\* is value.
Returned(value) == [threw |-> FALSE, value |-> value]

Threw(message) == [threw |-> TRUE, value |-> message]

\* generateBio once ai.models.generateContent has settled or the 20 s
\* timer of withTimeout has fired.  outcome.kind is "resolved" (with
\* outcome.text), "rejected" or "timeout".
generateBio(outcome) ==
    IF outcome.kind = "resolved"
    THEN LET bioText == Trim(outcome.text)
         IN  Returned(IF bioText # <<>> THEN bioText ELSE fallbackBio)
    ELSE Returned(fallbackBio)

\* A faulty variant of SynthesizedId, `GS-${Math.floor(Math.random() *
\* 100000)}`.  C13 does not hold of it.
SynthesizedIdUnpadded(r) == "GS-" \o ToString(r)

\* `GS-${Math.floor(10000 + Math.random() * 90000)}`
\* (r in units of 1/100000, so r * 90000 is (r * 9) / 10.)
SynthesizedId(r) == "GS-" \o ToString(10000 + ((r * 9) \div 10))

\* A faulty variant of googleSheetIdFor, without the try/catch: an error of
\* getSheetIdForStudent leaves the callback.  C9 does not hold of it.
googleSheetIdForUncaught(lookup, r) ==
    IF lookup.threw THEN lookup
    ELSE IF lookup.value # "" THEN Returned(lookup.value)
    ELSE Returned(SynthesizedId(r))

\* The try/catch around getSheetIdForStudent in the student callback:
\*     googleSheetId = await getSheetIdForStudent(...) ?? `GS-...`
\* and the same synthesized id in the catch.  lookup is what
\* getSheetIdForStudent did: returned an identifier, returned null ("") or
\* threw.
googleSheetIdFor(lookup, r) ==
    IF ~lookup.threw /\ lookup.value # ""
    THEN Returned(lookup.value)
    ELSE Returned(SynthesizedId(r))

\* A faulty variant of nonStudentsOf that keeps the Staff submissions only.
\* C12 does not hold of it.
nonStudentsOfStaffOnly(body) == SelectSeq(body, LAMBDA p : p.category = STAFF)

\* peopleToAdd.forEach(p => ...): the two partitions, in input order.
studentsOf(body) == SelectSeq(body, LAMBDA p : p.category = STUDENT)

nonStudentsOf(body) == SelectSeq(body, LAMBDA p : p.category # STUDENT)

RECURSIVE MapInserted(_, _, _, _)
\* inserted.forEach((row, index) =>
\*     tempIdToNewIdMap[nonStudentPayloads[index].tempId] = row.id)
MapInserted(map, inserted, payloads, index) ==
    IF index > Len(inserted) THEN map
    ELSE MapInserted(SetProperty(map, payloads[index].tempId, inserted[index]),
                     inserted, payloads, index + 1)

\* student.guardianTempIds?.map(tempId => tempIdToNewIdMap[tempId])
\*     .filter(Boolean) || []
newGuardianIds(student, map) ==
    IF student.guardianTempIds.present
    THEN SelectSeq(Map(student.guardianTempIds.items,
                       LAMBDA tempId : GetProperty(map, tempId)), Truthy)
    ELSE <<>>

\* [...new Set([...(student.guardianIds || []), ...newGuardianIds])]
allGuardianIds(student, map) ==
    Uniq(Map(OrEmpty(student.guardianIds), Num) \o newGuardianIds(student, map), {})

\* ----------------------------------------------------------------- store
\* JSON.stringify of one element of a guardianIds array, as supabase-js
\* writes the request body: a function in an array becomes null.
Serialized(x) == IF x.t = "function" THEN JsonNull ELSE x

\* A faulty variant of StoreAccepts for a table that refuses a Student
\* without guardians.  C21 does not hold of it.
StoreAcceptsGuardedOnly(rows) ==
    \A i \in 1..Len(rows) :
        /\ rows[i].category = STUDENT => rows[i].guardianIds.items # <<>>
        /\ \A j \in 1..Len(rows[i].guardianIds.items) :
              Serialized(rows[i].guardianIds.items[j]).t \in {"number", "null"}

\* The people table declares "guardianIds" INTEGER[]: an element must be an
\* integer or NULL, anything else makes the whole insert fail.
StoreAccepts(rows) ==
    \A i \in 1..Len(rows) :
        \A j \in 1..Len(rows[i].guardianIds.items) :
            Serialized(rows[i].guardianIds.items[j]).t \in {"number", "null"}

\* The rows as the table stores them: ids from the serial, in the order of
\* the payload.
StoredRows(rows, firstId) ==
    [i \in 1..Len(rows) |->
        [id |-> firstId + i - 1,
         category |-> rows[i].category,
         role |-> rows[i].role,
         class |-> rows[i].class,
         guardianIds |-> [present |-> rows[i].guardianIds.present,
                          items |-> Map(rows[i].guardianIds.items, Serialized)],
         bio |-> rows[i].bio,
         googleSheetId |-> rows[i].googleSheetId]]

\* A faulty variant of InsertedIds for a store that knows the batch: the
\* ids of the rows an identical earlier batch created (one batch earlier in
\* the serial).  C15 does not hold of it.
InsertedIdsOfEarlierBatch(rows, firstId) ==
    [i \in 1..Len(rows) |-> IF firstId > Len(rows) + 1
                            THEN firstId - Len(rows) - 1 + i - 1
                            ELSE firstId + i - 1]

\* .select('id') of a successful insert: the new ids, in insertion order.
InsertedIds(rows, firstId) == [i \in 1..Len(rows) |-> firstId + i - 1]

\* ----------------------------------------------------------------- state
VARIABLES
    env,                \* process.env of the deployment
    sheets,             \* module variable `sheets`: TRUE once a client is cached
    people,             \* table people of the Relational Store
    nextId,             \* next value of the table's serial id
    pc,                 \* position of the handler
    peopleToAdd,        \* request body
    nonStudentPayloads,
    studentPayloads,
    tempIdToNewIdMap,   \* own properties of the object literal
    tasks,              \* the async callbacks of the running Promise.all
    response,           \* what the handler returned
    inserts,            \* store inserts issued by this call, with their results
    peopleBefore,       \* table people when the request arrived
    form,               \* state of the Add Person form (its useState values)
    fetched,            \* body of the form's request in flight
    repository,         \* IdRepository search box, browser clock and timers
    accessControl,      \* AccessControl search: state, debounce timer, requests awaited
    users,              \* accounts of the identity provider
    settings,           \* table settings: its (key, value) rows
    storage,            \* image bucket: objects put by PUT /api/people/:id
    caller,             \* c.get('user') of the request being served
    apiRequest,         \* the /api call being served, or the last one served
    authContext         \* AuthProvider: its state, its subscription, the client's session

vars ==
    <<env, sheets, people, nextId, pc, peopleToAdd, nonStudentPayloads,
      studentPayloads, tempIdToNewIdMap, tasks, response, inserts, peopleBefore,
      form, fetched,
      repository,
      accessControl,
      users,
      settings,
      storage,
      caller,
      apiRequest,
      authContext>>

NoResponse == [status |-> 0, error |-> "", details |-> ""]

\* A profile stored by an earlier import.
ExistingGuardian ==
    [id |-> 1, category |-> PARENT, role |-> Str("Parent/Guardian"),
     class |-> NoString, guardianIds |-> Absent,
     bio |-> fallbackBio, googleSheetId |-> "GS-19283"]

\* The Add Person form as first rendered: its useState initial values and
\* the session of useAuth().
InitialForm(session) ==
    [session |-> session, category |-> STAFF, firstName |-> "",
     lastName |-> "", roleOrClass |-> "", image |-> "", imagePreview |-> "",
     selectedGuardians |-> <<>>, newGuardians |-> <<>>,
     isSaving |-> FALSE, error |-> ""]

NoRequest == [sent |-> FALSE, body |-> <<>>]

\* The identity provider's accounts when the deployment starts: an admin
\* and a plain user whose address is not confirmed yet.  location stands
\* for the metadata fields other than role.
InitialUsers ==
    [id \in {"u1", "u2"} |->
        [exists |-> TRUE,
         role |-> Str(IF id = "u1" THEN "admin" ELSE "user"),
         location |-> IF id = "u1" THEN "Office" ELSE "Gate A",
         confirmed |-> id = "u1"]]

\* No request is being served.
NoApiRequest ==
    [route |-> "", authorization |-> [present |-> FALSE, value |-> <<>>],
     id |-> "", body |-> [none |-> TRUE]]

\* AuthProvider as first rendered: its useState values, whether the
\* effect's subscription is in place, whether the promise of getSession is
\* still to resolve, the signOut calls not yet carried out, and the
\* session the supabase client holds.
NoUser == [id |-> "", email_confirmed_at |-> NoString, role |-> NoString]

NoSession == [present |-> FALSE, user |-> NoUser]

InitialAuthContext ==
    [session |-> NoSession, user |-> NoUser, isAdmin |-> FALSE,
     isSecurity |-> FALSE, loading |-> TRUE, mounted |-> TRUE,
     getSession |-> TRUE, signOuts |-> 0, stored |-> NoSession]

\* c.get('user') before the middleware has set it.
NoCaller == [present |-> FALSE, id |-> "", role |-> NoString]

\* AccessControl as first rendered: its useState values, the `timeout` of
\* debounce (pending or not, with the argument of the pending call), the
\* getPeople calls awaited, and the number of keystrokes so far.
NoResults == [found |-> FALSE, term |-> ""]

InitialAccessControl ==
    [searchTerm |-> "", searchResults |-> NoResults, isSearching |-> FALSE,
     error |-> "", timeout |-> [pending |-> FALSE, term |-> ""],
     awaited |-> {}, keystrokes |-> 0]

\* IdRepository as first rendered, with the browser's clock and timers:
\* searchTimeout.current is 0 for null, timers are the pending setTimeout
\* callbacks, calls the onSearchChange calls made so far.
InitialRepository ==
    [mounted |-> TRUE, searchTerm |-> "", current |-> 0, timers |-> {},
     nextTimer |-> 1, now |-> 0, lastKey |-> 0, typed |-> FALSE,
     calls |-> <<>>]

Init ==
    /\ env \in [GOOGLE_SHEET_ID : BOOLEAN, credentials : BOOLEAN]
    /\ sheets \in BOOLEAN
    /\ (sheets => env.GOOGLE_SHEET_ID /\ env.credentials)
    /\ people = <<ExistingGuardian>>
    /\ nextId = Len(people) + 1
    /\ pc = "idle"
    /\ peopleToAdd = <<>>
    /\ nonStudentPayloads = <<>>
    /\ studentPayloads = <<>>
    /\ tempIdToNewIdMap = EmptyObject
    /\ tasks = <<>>
    /\ response = NoResponse
    /\ inserts = <<>>
    /\ peopleBefore = people
    /\ form = InitialForm(TRUE)
    /\ fetched = NoRequest
    /\ repository = InitialRepository
    /\ accessControl = InitialAccessControl
    /\ users = InitialUsers
    /\ settings = {}
    /\ storage = {}
    /\ caller = NoCaller
    /\ apiRequest = NoApiRequest
    /\ authContext = InitialAuthContext

\* ----------------------------------------------------------------- tasks
\* A faulty variant of NonStudentTask that copies the submission's
\* guardianIds into the insert data.  C17 does not hold of it.
NonStudentTaskWithGuardians(person) ==
    [step |-> "upload", category |-> person.category,
     role |-> person.role, class |-> person.class,
     guardianIds |-> [present |-> person.guardianIds.present,
                      items |-> Map(person.guardianIds.items, Num)],
     bio |-> <<>>, googleSheetId |-> ""]

\* The async callback of nonStudentPayloads.map: it runs up to its first
\* await, the image upload.
NonStudentTask(person) ==
    [step |-> "upload", category |-> person.category,
     role |-> person.role, class |-> person.class, guardianIds |-> Absent,
     bio |-> <<>>, googleSheetId |-> ""]

\* Where getSheetIdForStudent stands when the callback of
\* studentPayloads.map reaches its first await.
LookupStart(e, cached) ==
    IF ~e.GOOGLE_SHEET_ID THEN "lookup:null"
    ELSE IF cached THEN "lookup:valuesGet"
    ELSE IF ~e.credentials THEN "lookup:throw"
    ELSE "lookup:getClient"

\* The async callback of studentPayloads.map: the guardian ids are resolved
\* before its first await, which is on getSheetIdForStudent.
StudentTask(student, map, e, cached) ==
    [step |-> LookupStart(e, cached), category |-> student.category,
     role |-> NoString, class |-> student.class,
     guardianIds |-> Arr(allGuardianIds(student, map)),
     bio |-> <<>>, googleSheetId |-> ""]

AllDone == \A i \in 1..Len(tasks) : tasks[i].step = "done"

\* A faulty variant of FirstPhase that starts with the students whenever
\* the batch has some.  C3 does not hold of it.
FirstPhaseStudentsFirst(nonStudents, students) ==
    IF Len(students) > 0 THEN "students"
    ELSE IF Len(nonStudents) > 0 THEN "nonStudents"
    ELSE "respond"

\* The phase the handler enters next, given what is still to insert.
FirstPhase(nonStudents, students) ==
    IF Len(nonStudents) > 0 THEN "nonStudents"
    ELSE IF Len(students) > 0 THEN "students"
    ELSE "respond"

\* The phase that follows the non-student block.
SecondPhase(students) == IF Len(students) > 0 THEN "students" ELSE "respond"

StudentTasks(students, map, e, cached) ==
    [i \in 1..Len(students) |-> StudentTask(students[i], map, e, cached)]

\* error.message of a failed insert.
StoreErrorMessage == "new row violates row-level security policy"

\* return c.json({ success: true }, 201)
Created == [status |-> 201, error |-> "", details |-> ""]

\* catch (e) { return c.json({ error: 'Failed to create profiles',
\*                             details: e.message }, 500) }
Failed(message) ==
    [status |-> 500, error |-> "Failed to create profiles", details |-> message]

\* return c.json({ error: 'Invalid payload' }, 400)
InvalidPayload == [status |-> 400, error |-> "Invalid payload", details |-> ""]

\* The insert payload the finished tasks of a Promise.all make up.
InsertData == tasks

Running == pc \in {"nonStudents", "students"}

\* A faulty variant of InvalidBody that lets an empty array through.  C11
\* does not hold of it.
InvalidBodyNotArrayOnly(json) == json.kind # "array"

\* !Array.isArray(peopleToAdd) || peopleToAdd.length === 0
InvalidBody(json) == json.kind # "array" \/ Len(json.items) = 0

\* --------------------------------------------------------------- actions
\* app.post('/people'): body check, partition, and the start of the first
\* block up to its first await.  peopleToAdd keeps the submissions of the
\* body (none for a body that is not an array).
PostPeople(json) ==
    /\ pc = "idle"
    /\ peopleToAdd' = json.items
    /\ peopleBefore' = people
    /\ IF InvalidBody(json)
       THEN /\ response' = InvalidPayload
            /\ pc' = "done"
            /\ UNCHANGED <<nonStudentPayloads, studentPayloads, tasks>>
       ELSE LET body == json.items
                ns == nonStudentsOf(body)
                st == studentsOf(body)
                phase == FirstPhase(ns, st)
            IN  /\ nonStudentPayloads' = ns
                /\ studentPayloads' = st
                /\ pc' = phase
                /\ tasks' = IF phase = "nonStudents"
                            THEN Map(ns, NonStudentTask)
                            ELSE StudentTasks(st, tempIdToNewIdMap, env, sheets)
                /\ UNCHANGED response
    /\ UNCHANGED <<authContext, apiRequest, caller, storage, settings, users, accessControl, repository, form, fetched, env, sheets, people, nextId, tempIdToNewIdMap, inserts>>

\* A callback threw: Promise.all rejects, the handler's catch answers with
\* the error's message and the handler returns.
Rejected(message) ==
    /\ response' = Failed(message)
    /\ pc' = "done"
    /\ tasks' = <<>>
    /\ UNCHANGED <<authContext, apiRequest, caller, storage, settings, users, accessControl, repository, form, fetched, env, sheets, people, nextId, peopleToAdd,
                   nonStudentPayloads, studentPayloads, tempIdToNewIdMap,
                   inserts, peopleBefore>>

\* Callback i goes on to its next await and the handler keeps waiting.
Continues(i, task) ==
    /\ tasks' = [tasks EXCEPT ![i] = task]
    /\ UNCHANGED <<authContext, apiRequest, caller, storage, settings, users, accessControl, repository, form, fetched, env, sheets, people, nextId, pc, peopleToAdd,
                   nonStudentPayloads, studentPayloads, tempIdToNewIdMap,
                   response, inserts, peopleBefore>>

\* getSheetIdForStudent settled for student i with `lookup`; the id is
\* taken or synthesized and the image upload starts.
LookupSettles(i, lookup, r) ==
    LET res == googleSheetIdFor(lookup, r)
    IN  IF res.threw
        THEN Rejected(res.value)
        ELSE Continues(i, [tasks[i] EXCEPT !.googleSheetId = res.value,
                                           !.step = "upload"])

\* getSheetIdForStudent returned null without a lookup: GOOGLE_SHEET_ID is
\* not set.
LookupSkipped(i, r) ==
    /\ pc = "students"
    /\ tasks[i].step = "lookup:null"
    /\ LookupSettles(i, Returned(""), r)

\* getSheetsClient threw: the service account credentials are not set.
CredentialsMissing(i, r) ==
    /\ pc = "students"
    /\ tasks[i].step = "lookup:throw"
    /\ LookupSettles(i, Threw("Google service account credentials are not set in environment variables."), r)

\* auth.getClient() resolved: the client is cached in `sheets` and
\* spreadsheets.values.get is called.
GetClientResolves(i) ==
    /\ pc = "students"
    /\ tasks[i].step = "lookup:getClient"
    /\ sheets' = TRUE
    /\ tasks' = [tasks EXCEPT ![i].step = "lookup:valuesGet"]
    /\ UNCHANGED <<authContext, apiRequest, caller, storage, settings, users, accessControl, repository, form, fetched, env, people, nextId, pc, peopleToAdd, nonStudentPayloads,
                   studentPayloads, tempIdToNewIdMap, response, inserts,
                   peopleBefore>>

\* auth.getClient() rejected: the error leaves getSheetIdForStudent.
GetClientRejects(i, r) ==
    /\ pc = "students"
    /\ tasks[i].step = "lookup:getClient"
    /\ LookupSettles(i, Threw("auth.getClient failed"), r)

\* spreadsheets.values.get answered; found is the identifier of the first
\* matching row, or "" when no row matches or the row has none
\* (getSheetIdForStudent returns null).
ValuesGetResolves(i, found, r) ==
    /\ pc = "students"
    /\ tasks[i].step = "lookup:valuesGet"
    /\ LookupSettles(i, Returned(found), r)

\* spreadsheets.values.get rejected: getSheetIdForStudent catches the error
\* and throws its own.
ValuesGetRejects(i, r) ==
    /\ pc = "students"
    /\ tasks[i].step = "lookup:valuesGet"
    /\ LookupSettles(i, Threw("Failed to communicate with Google Sheets."), r)

\* The request's own timeout ({ timeout: 20000 }) makes
\* spreadsheets.values.get reject.
ValuesGetTimesOut(i, r) ==
    /\ pc = "students"
    /\ tasks[i].step = "lookup:valuesGet"
    /\ LookupSettles(i, Threw("Failed to communicate with Google Sheets."), r)

\* uploadImageToStorage returned (the image as it was, or its public URL):
\* generateBio is called.
UploadReturns(i) ==
    /\ Running
    /\ tasks[i].step = "upload"
    /\ Continues(i, [tasks[i] EXCEPT !.step = "bio"])

\* uploadImageToStorage threw.
UploadThrows(i) ==
    /\ Running
    /\ tasks[i].step = "upload"
    /\ Rejected("Failed to upload image")

\* ai.models.generateContent settled, or the timer of withTimeout fired,
\* for callback i.  A non-student's googleSheetId is synthesized right
\* after generateBio returns; a student's was set by the lookup.
BioSettles(i, outcome, r) ==
    LET res == generateBio(outcome)
    IN  IF res.threw
        THEN Rejected(res.value)
        ELSE Continues(i, [tasks[i] EXCEPT
                              !.bio = res.value,
                              !.googleSheetId =
                                  IF pc = "nonStudents"
                                  THEN SynthesizedId(r) ELSE @,
                              !.step = "done"])

BioResolves(i, text, r) ==
    /\ Running
    /\ tasks[i].step = "bio"
    /\ BioSettles(i, [kind |-> "resolved", text |-> text], r)

BioRejects(i, r) ==
    /\ Running
    /\ tasks[i].step = "bio"
    /\ BioSettles(i, [kind |-> "rejected", text |-> <<>>], r)

\* The 20 s timer of withTimeout fires before generateContent settles.
BioTimesOut(i, r) ==
    /\ Running
    /\ tasks[i].step = "bio"
    /\ BioSettles(i, [kind |-> "timeout", text |-> <<>>], r)

\* supabase.from('people').insert(nonStudentInsertData).select('id')
\* succeeded: the map is built from the returned rows and the handler goes
\* on, up to the first await of the student block or to the response.
InsertNonStudentsOk ==
    /\ pc = "nonStudents"
    /\ AllDone
    /\ StoreAccepts(InsertData)
    /\ LET inserted == InsertedIds(InsertData, nextId)
           map == MapInserted(tempIdToNewIdMap, inserted, nonStudentPayloads, 1)
           phase == SecondPhase(studentPayloads)
       IN  /\ people' = people \o StoredRows(InsertData, nextId)
           /\ nextId' = nextId + Len(InsertData)
           /\ inserts' = Append(inserts, [block |-> "nonStudents", ok |-> TRUE])
           /\ tempIdToNewIdMap' = map
           /\ pc' = IF phase = "students" THEN "students" ELSE "done"
           /\ tasks' = IF phase = "students"
                       THEN StudentTasks(studentPayloads, map, env, sheets)
                       ELSE <<>>
           /\ response' = IF phase = "students" THEN response ELSE Created
    /\ UNCHANGED <<authContext, apiRequest, caller, storage, settings, users, accessControl, repository, form, fetched, env, sheets, peopleToAdd, nonStudentPayloads,
                   studentPayloads, peopleBefore>>

\* A faulty variant of InsertNonStudentsError in which the error is not
\* thrown: the handler goes on with an empty map.  C5 and C6 do not hold
\* of it.
InsertNonStudentsErrorNotThrown ==
    /\ pc = "nonStudents"
    /\ AllDone
    /\ LET phase == SecondPhase(studentPayloads)
       IN  /\ inserts' = Append(inserts, [block |-> "nonStudents", ok |-> FALSE])
           /\ pc' = IF phase = "students" THEN "students" ELSE "done"
           /\ tasks' = IF phase = "students"
                       THEN StudentTasks(studentPayloads, tempIdToNewIdMap,
                                         env, sheets)
                       ELSE <<>>
           /\ response' = IF phase = "students" THEN response ELSE Created
    /\ UNCHANGED <<authContext, apiRequest, caller, storage, settings, users, accessControl, repository, form, fetched, env, sheets, people, nextId, peopleToAdd,
                   nonStudentPayloads, studentPayloads, tempIdToNewIdMap,
                   peopleBefore>>

\* The non-student insert reported an error: it is thrown and the catch
\* answers.
InsertNonStudentsError ==
    /\ pc = "nonStudents"
    /\ AllDone
    /\ inserts' = Append(inserts, [block |-> "nonStudents", ok |-> FALSE])
    /\ response' = Failed("Supabase non-student insert error: " \o StoreErrorMessage)
    /\ pc' = "done"
    /\ tasks' = <<>>
    /\ UNCHANGED <<authContext, apiRequest, caller, storage, settings, users, accessControl, repository, form, fetched, env, sheets, people, nextId, peopleToAdd,
                   nonStudentPayloads, studentPayloads, tempIdToNewIdMap,
                   peopleBefore>>

\* supabase.from('people').insert(studentInsertData) succeeded.
InsertStudentsOk ==
    /\ pc = "students"
    /\ AllDone
    /\ StoreAccepts(InsertData)
    /\ people' = people \o StoredRows(InsertData, nextId)
    /\ nextId' = nextId + Len(InsertData)
    /\ inserts' = Append(inserts, [block |-> "students", ok |-> TRUE])
    /\ response' = Created
    /\ pc' = "done"
    /\ tasks' = <<>>
    /\ UNCHANGED <<authContext, apiRequest, caller, storage, settings, users, accessControl, repository, form, fetched, env, sheets, peopleToAdd, nonStudentPayloads,
                   studentPayloads, tempIdToNewIdMap, peopleBefore>>

\* A faulty variant of InsertStudentsError that undoes the non-student
\* insert before it answers.  C4 does not hold of it.
InsertStudentsErrorRollsBack ==
    /\ pc = "students"
    /\ AllDone
    /\ people' = peopleBefore
    /\ inserts' = Append(inserts, [block |-> "students", ok |-> FALSE])
    /\ response' = Failed("Supabase student insert error: " \o StoreErrorMessage)
    /\ pc' = "done"
    /\ tasks' = <<>>
    /\ UNCHANGED <<authContext, apiRequest, caller, storage, settings, users, accessControl, repository, form, fetched, env, sheets, nextId, peopleToAdd,
                   nonStudentPayloads, studentPayloads, tempIdToNewIdMap,
                   peopleBefore>>

\* The student insert reported an error: it is thrown and the catch answers.
InsertStudentsError ==
    /\ pc = "students"
    /\ AllDone
    /\ inserts' = Append(inserts, [block |-> "students", ok |-> FALSE])
    /\ response' = Failed("Supabase student insert error: " \o StoreErrorMessage)
    /\ pc' = "done"
    /\ tasks' = <<>>
    /\ UNCHANGED <<authContext, apiRequest, caller, storage, settings, users, accessControl, repository, form, fetched, env, sheets, people, nextId, peopleToAdd,
                   nonStudentPayloads, studentPayloads, tempIdToNewIdMap,
                   peopleBefore>>

TaskIds == 1..Len(tasks)

Next ==
    \/ pc = "idle" /\ \E json \in JsonBodies : PostPeople(json)
    \/ \E i \in TaskIds, r \in RandomValues : LookupSkipped(i, r)
    \/ \E i \in TaskIds, r \in RandomValues : CredentialsMissing(i, r)
    \/ \E i \in TaskIds : GetClientResolves(i)
    \/ \E i \in TaskIds, r \in RandomValues : GetClientRejects(i, r)
    \/ \E i \in TaskIds, found \in {RosterId, ""}, r \in RandomValues :
            ValuesGetResolves(i, found, r)
    \/ \E i \in TaskIds, r \in RandomValues : ValuesGetRejects(i, r)
    \/ \E i \in TaskIds, r \in RandomValues : ValuesGetTimesOut(i, r)
    \/ \E i \in TaskIds : UploadReturns(i)
    \/ \E i \in TaskIds : UploadThrows(i)
    \/ \E i \in TaskIds, text \in BioTexts, r \in RandomValues :
            BioResolves(i, text, r)
    \/ \E i \in TaskIds, r \in RandomValues : BioRejects(i, r)
    \/ \E i \in TaskIds, r \in RandomValues : BioTimesOut(i, r)
    \/ InsertNonStudentsOk
    \/ InsertNonStudentsError
    \/ InsertStudentsOk
    \/ InsertStudentsError

Spec == Init /\ [][Next]_vars

\* What the runtime and the Relational Store guarantee to happen, whatever
\* the Bio Generator and the Roster Lookup do: a synchronous continuation
\* runs, an armed timer fires (withTimeout around generateContent, the
\* { timeout: 20000 } of spreadsheets.values.get), and the store answers an
\* upload or an insert.  Nothing is assumed of the collaborators' answers:
\* generateContent, auth.getClient() and spreadsheets.values.get may stay
\* pending for ever.
Fairness ==
    /\ WF_vars(\E i \in TaskIds, r \in RandomValues :
                  LookupSkipped(i, r) \/ CredentialsMissing(i, r))
    /\ WF_vars(\E i \in TaskIds, r \in RandomValues : ValuesGetTimesOut(i, r))
    /\ WF_vars(\E i \in TaskIds, r \in RandomValues : BioTimesOut(i, r))
    /\ WF_vars(\E i \in TaskIds : UploadReturns(i) \/ UploadThrows(i))
    /\ WF_vars(InsertNonStudentsOk \/ InsertNonStudentsError)
    /\ WF_vars(InsertStudentsOk \/ InsertStudentsError)

FairSpec == Spec /\ Fairness

\* ------------------------------------------------------ worker/index.ts
\* The same endpoint as the Cloudflare worker serves it, over the D1
\* database.  The handler is sequential: `tasks` holds the statements
\* prepared so far (statements, then studentStatements) and pc says which
\* await the handler is at.  The worker uploads no image, looks up no
\* roster and reads neither process.env nor `sheets`.

\* generateBio of the worker, once ai.models.generateContent has settled:
\*     return response.text.trim();
\* inside try, the fallback string in catch.  outcome.kind is "resolved"
\* (with outcome.text), "noText" (response.text is undefined, so .trim()
\* throws a TypeError inside the try) or "rejected".
workerGenerateBio(outcome) ==
    IF outcome.kind = "resolved"
    THEN Returned(Trim(outcome.text))
    ELSE Returned(fallbackBio)

\* What the handler awaits after body has been partitioned or a block has
\* been written.
WorkerFirstAwait(nonStudents, students) ==
    IF Len(nonStudents) > 0 THEN "statements"
    ELSE IF Len(students) > 0 THEN "studentStatements"
    ELSE "respond"

InitWorker ==
    /\ env = [GOOGLE_SHEET_ID |-> FALSE, credentials |-> FALSE]
    /\ sheets = FALSE
    /\ people = <<ExistingGuardian>>
    /\ nextId = Len(people) + 1
    /\ pc = "idle"
    /\ peopleToAdd = <<>>
    /\ nonStudentPayloads = <<>>
    /\ studentPayloads = <<>>
    /\ tempIdToNewIdMap = EmptyObject
    /\ tasks = <<>>
    /\ response = NoResponse
    /\ inserts = <<>>
    /\ peopleBefore = people
    /\ form = InitialForm(TRUE)
    /\ fetched = NoRequest
    /\ repository = InitialRepository
    /\ accessControl = InitialAccessControl
    /\ users = InitialUsers
    /\ settings = {}
    /\ storage = {}
    /\ caller = NoCaller
    /\ apiRequest = NoApiRequest
    /\ authContext = InitialAuthContext

\* api.post('/people') up to its first await: the payload check and the
\* first loop up to the first non-student's generateBio.  (The loop pushes
\* the students between its awaits; they are only read after it.)
WorkerPostPeople(body) ==
    /\ pc = "idle"
    /\ peopleToAdd' = body
    /\ peopleBefore' = people
    /\ IF Len(body) = 0
       THEN /\ response' = InvalidPayload
            /\ pc' = "done"
            /\ UNCHANGED <<nonStudentPayloads, studentPayloads>>
       ELSE /\ nonStudentPayloads' = nonStudentsOf(body)
            /\ studentPayloads' = studentsOf(body)
            /\ pc' = WorkerFirstAwait(nonStudentsOf(body), studentsOf(body))
            /\ UNCHANGED response
    /\ UNCHANGED <<authContext, apiRequest, caller, storage, settings, users, accessControl, repository, form, fetched, env, sheets, people, nextId, tempIdToNewIdMap, tasks,
                   inserts>>

\* The statement prepared for the person whose bio has just been
\* generated: the next non-student, or the next student with its resolved
\* guardian ids.
WorkerStatement(bio, r) ==
    IF pc = "statements"
    THEN [step |-> "done",
          category |-> nonStudentPayloads[Len(tasks) + 1].category,
          role |-> nonStudentPayloads[Len(tasks) + 1].role,
          class |-> nonStudentPayloads[Len(tasks) + 1].class,
          guardianIds |-> Absent, bio |-> bio,
          googleSheetId |-> SynthesizedId(r)]
    ELSE [step |-> "done", category |-> STUDENT, role |-> NoString,
          class |-> studentPayloads[Len(tasks) + 1].class,
          guardianIds |-> Arr(allGuardianIds(studentPayloads[Len(tasks) + 1],
                                             tempIdToNewIdMap)),
          bio |-> bio, googleSheetId |-> SynthesizedId(r)]

\* await generateBio(...) returns in one of the two loops: the statement is
\* pushed and the loop goes on to the next person's generateBio or ends at
\* the block's DB.batch.
WorkerBioSettles(outcome, r) ==
    /\ pc \in {"statements", "studentStatements"}
    /\ tasks' = Append(tasks, WorkerStatement(workerGenerateBio(outcome).value, r))
    /\ pc' = IF pc = "statements"
             THEN (IF Len(tasks) + 1 < Len(nonStudentPayloads)
                   THEN "statements" ELSE "batch")
             ELSE (IF Len(tasks) + 1 < Len(studentPayloads)
                   THEN "studentStatements" ELSE "studentBatch")
    /\ UNCHANGED <<authContext, apiRequest, caller, storage, settings, users, accessControl, repository, form, fetched, env, sheets, people, nextId, peopleToAdd,
                   nonStudentPayloads, studentPayloads, tempIdToNewIdMap,
                   response, inserts, peopleBefore>>

WorkerBioResolves(text, r) ==
    WorkerBioSettles([kind |-> "resolved", text |-> text], r)

WorkerBioWithoutText(r) ==
    WorkerBioSettles([kind |-> "noText", text |-> <<>>], r)

WorkerBioRejects(r) ==
    WorkerBioSettles([kind |-> "rejected", text |-> <<>>], r)

\* newId of the i-th non-student: results[i]?.meta?.last_row_id, or, when
\* the batch reports no meta, SELECT last_insert_rowid().
WorkerNewIds(meta, rows, firstId) ==
    [i \in 1..Len(rows) |->
        IF meta THEN firstId + i - 1 ELSE firstId + Len(rows) - 1]

\* await c.env.DB.batch(statements) returned: the map is built and the
\* handler goes on to the first student's generateBio or to the response.
WorkerBatchOk(meta) ==
    /\ pc = "batch"
    /\ LET phase == WorkerFirstAwait(<<>>, studentPayloads)
       IN  /\ people' = people \o StoredRows(tasks, nextId)
           /\ nextId' = nextId + Len(tasks)
           /\ inserts' = Append(inserts, [block |-> "nonStudents", ok |-> TRUE])
           /\ tempIdToNewIdMap' =
                  MapInserted(tempIdToNewIdMap,
                              WorkerNewIds(meta, tasks, nextId),
                              nonStudentPayloads, 1)
           /\ pc' = IF phase = "respond" THEN "done" ELSE phase
           /\ response' = IF phase = "respond" THEN Created ELSE response
           /\ tasks' = <<>>
    /\ UNCHANGED <<authContext, apiRequest, caller, storage, settings, users, accessControl, repository, form, fetched, env, sheets, peopleToAdd, nonStudentPayloads,
                   studentPayloads, peopleBefore>>

\* await c.env.DB.batch(studentStatements) returned.
WorkerStudentBatchOk ==
    /\ pc = "studentBatch"
    /\ people' = people \o StoredRows(tasks, nextId)
    /\ nextId' = nextId + Len(tasks)
    /\ inserts' = Append(inserts, [block |-> "students", ok |-> TRUE])
    /\ response' = Created
    /\ pc' = "done"
    /\ tasks' = <<>>
    /\ UNCHANGED <<authContext, apiRequest, caller, storage, settings, users, accessControl, repository, form, fetched, env, sheets, peopleToAdd, nonStudentPayloads,
                   studentPayloads, tempIdToNewIdMap, peopleBefore>>

\* DB.batch threw: the catch answers with e.message.
WorkerBatchThrows ==
    /\ pc \in {"batch", "studentBatch"}
    /\ inserts' = Append(inserts,
                         [block |-> IF pc = "batch" THEN "nonStudents"
                                    ELSE "students",
                          ok |-> FALSE])
    /\ response' = Failed(StoreErrorMessage)
    /\ pc' = "done"
    /\ tasks' = <<>>
    /\ UNCHANGED <<authContext, apiRequest, caller, storage, settings, users, accessControl, repository, form, fetched, env, sheets, people, nextId, peopleToAdd,
                   nonStudentPayloads, studentPayloads, tempIdToNewIdMap,
                   peopleBefore>>

NextWorker ==
    \/ pc = "idle" /\ \E body \in Bodies : WorkerPostPeople(body)
    \/ \E text \in BioTexts, r \in RandomValues : WorkerBioResolves(text, r)
    \/ \E r \in RandomValues : WorkerBioWithoutText(r)
    \/ \E r \in RandomValues : WorkerBioRejects(r)
    \/ \E meta \in BOOLEAN : WorkerBatchOk(meta)
    \/ WorkerStudentBatchOk
    \/ WorkerBatchThrows

SpecWorker == InitWorker /\ [][NextWorker]_vars

\* ------------------------------------------- submissions with all fields
\* The same handler, fed single submissions that carry every optional
\* property and a name, a roster sheet with rows to search, and several
\* values of Math.random().

\* String.prototype.toLowerCase, on the letters the names below use.
LowerCase(c) ==
    CASE c = "A" -> "a"
      [] c = "N" -> "n"
      [] c = "L" -> "l"
      [] c = "I" -> "i"
      [] OTHER -> c

ToLowerCase(s) == [k \in 1..Len(s) |-> LowerCase(s[k])]

\* `${firstName.trim()} ${lastName.trim()}`.toLowerCase()
FullName(firstName, lastName) ==
    ToLowerCase(Trim(firstName) \o <<" ">> \o Trim(lastName))

\* A faulty variant of FindStudentId that goes on to later rows when the
\* first matching row has no identifier.  C14 does not hold of it.
RECURSIVE FindStudentIdSkippingBlank(_, _)
FindStudentIdSkippingBlank(rows, searchName) ==
    IF rows = <<>> THEN ""
    ELSE IF FullName(Head(rows).firstName, Head(rows).lastName) = searchName
            /\ Head(rows).studentId # ""
         THEN Head(rows).studentId
         ELSE FindStudentIdSkippingBlank(Tail(rows), searchName)

\* The loop of getSheetIdForStudent over response.data.values: the
\* identifier (row[12]) of the first row whose name is searchName, or ""
\* (null) when that row has none or no row matches.  A row's firstName and
\* lastName are row[0] || '' and row[1] || ''.
RECURSIVE FindStudentId(_, _)
FindStudentId(rows, searchName) ==
    IF rows = <<>> THEN ""
    ELSE IF FullName(Head(rows).firstName, Head(rows).lastName) = searchName
         THEN Head(rows).studentId
         ELSE FindStudentId(Tail(rows), searchName)

RosterRow(firstName, lastName, studentId) ==
    [firstName |-> firstName, lastName |-> lastName, studentId |-> studentId]

\* response.data.values of the roster sheet: no rows; no row for An Li; a
\* row for An Li after another student's; two rows for An Li, written with
\* padding and capitals; a first row for An Li without identifier followed
\* by one with.
Sheets ==
    {<<>>,
     <<RosterRow(<<"L", "i">>, <<"A", "n">>, "R-7")>>,
     <<RosterRow(<<"L", "i">>, <<"A", "n">>, "R-7"),
       RosterRow(<<"a", "n">>, <<"l", "i">>, RosterId)>>,
     <<RosterRow(<<" ", "A", "N">>, <<"L", "i", " ">>, RosterId),
       RosterRow(<<"A", "n">>, <<"L", "i">>, "R-7")>>,
     <<RosterRow(<<"A", "n">>, <<"L", "i">>, ""),
       RosterRow(<<"A", "n">>, <<"L", "i">>, RosterId)>>}

\* firstName and lastName of the submitted students.
StudentNames ==
    {[firstName |-> <<"A", "n">>, lastName |-> <<"L", "i">>],
     [firstName |-> <<" ", "a", "N", " ">>, lastName |-> <<"L", "I">>]}

OptionalStrings(v) == {NoString, Str(v)}

\* Submissions with every combination of the optional properties.
\* Guardian references of a Student submitted alone: an existing profile;
\* none at all; empty guardianIds and a guardianTempId that names no
\* submission of the batch.
StudentGuardianRefs ==
    {[guardianIds |-> Arr(<<1>>), guardianTempIds |-> Absent],
     [guardianIds |-> Absent, guardianTempIds |-> Absent],
     [guardianIds |-> Arr(<<>>), guardianTempIds |-> Arr(<<"t3">>)]}

FullPersonData ==
    {[tempId |-> "t1", category |-> c, firstName |-> <<"L", "i">>,
      lastName |-> <<"A", "n">>, role |-> ro, class |-> cl,
      guardianIds |-> g.guardianIds, guardianTempIds |-> g.guardianTempIds] :
        c \in {STAFF, PARENT}, ro \in OptionalStrings("Teacher"),
        cl \in OptionalStrings("Grade 5"),
        g \in {[guardianIds |-> Absent, guardianTempIds |-> Absent],
               [guardianIds |-> Arr(<<1>>), guardianTempIds |-> Arr(<<"t1">>)]}}
    \cup
    {[tempId |-> "t2", category |-> STUDENT, firstName |-> n.firstName,
      lastName |-> n.lastName, role |-> ro, class |-> cl,
      guardianIds |-> g.guardianIds, guardianTempIds |-> g.guardianTempIds] :
        n \in StudentNames, ro \in OptionalStrings("Prefect"),
        cl \in OptionalStrings("Grade 5"), g \in StudentGuardianRefs}

FullBodies == {JsonArray(<<p>>) : p \in FullPersonData}

\* Values of Math.random(), in units of 1/100000: the least, the greatest
\* and two between.
ManyRandomValues == {0, 5, 11111, 99999}

\* spreadsheets.values.get answered with rows: the loop looks for the
\* student of callback i.
ValuesGetReturns(i, rows, r) ==
    ValuesGetResolves(i,
        FindStudentId(rows, FullName(studentPayloads[i].firstName,
                                     studentPayloads[i].lastName)),
        r)

NextFull ==
    \/ pc = "idle" /\ \E json \in FullBodies : PostPeople(json)
    \/ \E i \in TaskIds, r \in ManyRandomValues : LookupSkipped(i, r)
    \/ \E i \in TaskIds, r \in ManyRandomValues : CredentialsMissing(i, r)
    \/ \E i \in TaskIds : GetClientResolves(i)
    \/ \E i \in TaskIds, r \in ManyRandomValues : GetClientRejects(i, r)
    \/ \E i \in TaskIds, rows \in Sheets, r \in ManyRandomValues :
            ValuesGetReturns(i, rows, r)
    \/ \E i \in TaskIds, r \in ManyRandomValues : ValuesGetRejects(i, r)
    \/ \E i \in TaskIds, r \in ManyRandomValues : ValuesGetTimesOut(i, r)
    \/ \E i \in TaskIds : UploadReturns(i)
    \/ \E i \in TaskIds : UploadThrows(i)
    \/ \E i \in TaskIds, text \in BioTexts, r \in ManyRandomValues :
            BioResolves(i, text, r)
    \/ \E i \in TaskIds, r \in ManyRandomValues : BioRejects(i, r)
    \/ \E i \in TaskIds, r \in ManyRandomValues : BioTimesOut(i, r)
    \/ InsertNonStudentsOk
    \/ InsertNonStudentsError
    \/ InsertStudentsOk
    \/ InsertStudentsError

SpecFull == Init /\ [][NextFull]_vars

\* ------------------------------------------------- a sequence of requests
\* Requests served one after the other against the same table: batch
\* imports (app.post('/people')) and profile updates
\* (app.put('/people/:id')).  Each request is one step, from its arrival to
\* its response.  The Bio Generator is down and the roster is not
\* configured, so every bio is the fallback and every googleSheetId is
\* synthesized.  peopleToAdd, nonStudentPayloads, studentPayloads,
\* tempIdToNewIdMap and inserts are those of the latest import.

\* Most rows the table holds.
MaxPeople == 5

\* Bodies of the imports: a guardian and a student that names it; a student
\* with direct guardian ids; an empty array.
SessionBodies ==
    {JsonArray(<<[tempId |-> "t1", category |-> PARENT,
                  role |-> Str("Parent/Guardian"), class |-> NoString,
                  guardianIds |-> Absent, guardianTempIds |-> Absent],
                 [tempId |-> "t2", category |-> STUDENT,
                  role |-> NoString, class |-> Str("Grade 5"),
                  guardianIds |-> Arr(<<1>>), guardianTempIds |-> Arr(<<"t1">>)]>>),
     JsonArray(<<[tempId |-> "t1", category |-> STUDENT,
                  role |-> NoString, class |-> Str("Grade 5"),
                  guardianIds |-> Arr(<<2, 1, 2>>), guardianTempIds |-> Absent]>>),
     JsonArray(<<>>)}

\* The object a callback returns once its awaits are over.
Finished(task, bio, googleSheetId) ==
    [task EXCEPT !.step = "done", !.bio = bio, !.googleSheetId = googleSheetId]

\* nonStudentInsertData and studentInsertData of a whole import.
NonStudentInsertData(nonStudents, r) ==
    [j \in 1..Len(nonStudents) |->
        Finished(NonStudentTask(nonStudents[j]),
                 generateBio([kind |-> "rejected", text |-> <<>>]).value,
                 SynthesizedId(r))]

StudentInsertData(students, map, r) ==
    [i \in 1..Len(students) |->
        Finished(StudentTask(students[i], map, env, sheets),
                 generateBio([kind |-> "rejected", text |-> <<>>]).value,
                 googleSheetIdFor(Returned(""), r).value)]

InitSession ==
    /\ env = [GOOGLE_SHEET_ID |-> FALSE, credentials |-> FALSE]
    /\ sheets = FALSE
    /\ people = <<ExistingGuardian>>
    /\ nextId = Len(people) + 1
    /\ pc = "idle"
    /\ peopleToAdd = <<>>
    /\ nonStudentPayloads = <<>>
    /\ studentPayloads = <<>>
    /\ tempIdToNewIdMap = EmptyObject
    /\ tasks = <<>>
    /\ response = NoResponse
    /\ inserts = <<>>
    /\ peopleBefore = people
    /\ form = InitialForm(TRUE)
    /\ fetched = NoRequest
    /\ repository = InitialRepository
    /\ accessControl = InitialAccessControl
    /\ users = InitialUsers
    /\ settings = {}
    /\ storage = {}
    /\ caller = NoCaller
    /\ apiRequest = NoApiRequest
    /\ authContext = InitialAuthContext

\* app.post('/people'), from the request to the response.  nonStudentsOk
\* and studentsOk say whether the store accepts the two inserts.
ImportBatch(json, r, nonStudentsOk, studentsOk) ==
    LET body == json.items
        ns == nonStudentsOf(body)
        st == studentsOf(body)
        nsData == NonStudentInsertData(ns, r)
        nsInserted == Len(ns) > 0 /\ nonStudentsOk /\ StoreAccepts(nsData)
        nsFailed == Len(ns) > 0 /\ ~nsInserted
        people1 == IF nsInserted THEN people \o StoredRows(nsData, nextId)
                   ELSE people
        nextId1 == IF nsInserted THEN nextId + Len(ns) ELSE nextId
        map == IF nsInserted
               THEN MapInserted(EmptyObject, InsertedIds(nsData, nextId), ns, 1)
               ELSE EmptyObject
        stData == StudentInsertData(st, map, r)
        stTried == Len(st) > 0 /\ ~nsFailed
        stInserted == stTried /\ studentsOk /\ StoreAccepts(stData)
        stFailed == stTried /\ ~stInserted
    IN  /\ pc = "idle"
        /\ Len(people) + Len(body) <= MaxPeople
        /\ peopleToAdd' = body
        /\ peopleBefore' = people
        /\ IF InvalidBody(json)
           THEN /\ response' = InvalidPayload
                /\ UNCHANGED <<people, nextId, nonStudentPayloads,
                               studentPayloads, tempIdToNewIdMap, inserts>>
           ELSE /\ nonStudentPayloads' = ns
                /\ studentPayloads' = st
                /\ tempIdToNewIdMap' = map
                /\ people' = IF stInserted
                             THEN people1 \o StoredRows(stData, nextId1)
                             ELSE people1
                /\ nextId' = IF stInserted THEN nextId1 + Len(st) ELSE nextId1
                /\ inserts' =
                      (IF Len(ns) > 0
                       THEN <<[block |-> "nonStudents", ok |-> nsInserted]>>
                       ELSE <<>>)
                      \o (IF stTried
                          THEN <<[block |-> "students", ok |-> stInserted]>>
                          ELSE <<>>)
                /\ response' =
                      IF nsFailed
                      THEN Failed("Supabase non-student insert error: "
                                  \o StoreErrorMessage)
                      ELSE IF stFailed
                      THEN Failed("Supabase student insert error: "
                                  \o StoreErrorMessage)
                      ELSE Created
        /\ UNCHANGED <<authContext, apiRequest, caller, storage, settings, users, accessControl, repository, form, fetched, env, sheets, pc, tasks>>

\* Bodies of PUT /people/:id: the columns to set, with their values.
Updates ==
    {[category |-> STUDENT],
     [guardianIds |-> Arr(<<Num(7)>>)],
     [id |-> 9]}

\* .update(updateData): the row with the columns of updateData replaced.
Updated(row, updateData) ==
    [column \in DOMAIN row |->
        IF column \in DOMAIN updateData THEN updateData[column] ELSE row[column]]

\* The update breaks the primary key: it gives the id of another row.
KeyTaken(id, updateData) ==
    /\ "id" \in DOMAIN updateData
    /\ \E k \in 1..Len(people) : people[k].id # id /\ people[k].id = updateData.id

Forbidden == [status |-> 403, error |-> "Forbidden: Admins only", details |-> ""]

Updated200 == [status |-> 200, error |-> "", details |-> ""]

\* app.put('/people/:id') for a body without image, from the request to the
\* response: only an admin gets past the first check; the store sets the
\* columns of the body in the row whose id is :id, if there is one.
PutPerson(admin, id, updateData) ==
    /\ pc = "idle"
    /\ peopleBefore' = people
    /\ IF ~admin
       THEN /\ response' = Forbidden
            /\ UNCHANGED people
       ELSE IF KeyTaken(id, updateData)
       THEN /\ response' = [status |-> 500, error |-> "Failed to update person",
                            details |-> StoreErrorMessage]
            /\ UNCHANGED people
       ELSE /\ response' = Updated200
            /\ people' = [k \in 1..Len(people) |->
                             IF people[k].id = id
                             THEN Updated(people[k], updateData)
                             ELSE people[k]]
    /\ UNCHANGED <<authContext, apiRequest, caller, storage, settings, users, accessControl, repository, form, fetched, env, sheets, nextId, pc, peopleToAdd, nonStudentPayloads,
                   studentPayloads, tempIdToNewIdMap, tasks, inserts>>

\* Ids a PUT names: the existing guardian's and the first one an import
\* assigns.
PersonIds == {1, 2}

NextSession ==
    \/ \E json \in SessionBodies, r \in RandomValues,
          nonStudentsOk \in BOOLEAN, studentsOk \in BOOLEAN :
            ImportBatch(json, r, nonStudentsOk, studentsOk)
    \/ \E admin \in BOOLEAN, id \in PersonIds, updateData \in Updates :
            PutPerson(admin, id, updateData)

SpecSession == InitSession /\ [][NextSession]_vars

\* ------------------------------------------- one process, many requests
\* The module-level `let sheets` outlives a request: the same process
\* serves the next POST /api/people with whatever getSheetsClient cached.
ProcessBodies ==
    {JsonArray(<<[tempId |-> "t1", category |-> STUDENT,
                  guardianIds |-> Arr(<<1>>), guardianTempIds |-> Absent,
                  role |-> NoString, class |-> Str("Grade 5")]>>)}

InitProcess ==
    /\ env = [GOOGLE_SHEET_ID |-> TRUE, credentials |-> TRUE]
    /\ sheets = FALSE
    /\ people = <<ExistingGuardian>>
    /\ nextId = Len(people) + 1
    /\ pc = "idle"
    /\ peopleToAdd = <<>>
    /\ nonStudentPayloads = <<>>
    /\ studentPayloads = <<>>
    /\ tempIdToNewIdMap = EmptyObject
    /\ tasks = <<>>
    /\ response = NoResponse
    /\ inserts = <<>>
    /\ peopleBefore = people
    /\ form = InitialForm(TRUE)
    /\ fetched = NoRequest
    /\ repository = InitialRepository
    /\ accessControl = InitialAccessControl
    /\ users = InitialUsers
    /\ settings = {}
    /\ storage = {}
    /\ caller = NoCaller
    /\ apiRequest = NoApiRequest
    /\ authContext = InitialAuthContext

\* The handler has returned; its locals are gone, the module's variables
\* and the table stay.
NextRequest ==
    /\ pc = "done"
    /\ Len(people) < MaxPeople
    /\ pc' = "idle"
    /\ peopleToAdd' = <<>>
    /\ nonStudentPayloads' = <<>>
    /\ studentPayloads' = <<>>
    /\ tempIdToNewIdMap' = EmptyObject
    /\ tasks' = <<>>
    /\ response' = NoResponse
    /\ inserts' = <<>>
    /\ peopleBefore' = people
    /\ UNCHANGED <<authContext, apiRequest, caller, storage, settings, users, accessControl, repository, form, fetched, env, sheets, people, nextId>>

NextProcess ==
    \/ pc = "idle" /\ \E json \in ProcessBodies : PostPeople(json)
    \/ \E i \in TaskIds : GetClientResolves(i)
    \/ \E i \in TaskIds, r \in RandomValues : GetClientRejects(i, r)
    \/ \E i \in TaskIds, found \in {RosterId, ""}, r \in RandomValues :
            ValuesGetResolves(i, found, r)
    \/ \E i \in TaskIds, r \in RandomValues : ValuesGetRejects(i, r)
    \/ \E i \in TaskIds, r \in RandomValues : ValuesGetTimesOut(i, r)
    \/ \E i \in TaskIds : UploadReturns(i)
    \/ \E i \in TaskIds : UploadThrows(i)
    \/ \E i \in TaskIds, text \in BioTexts, r \in RandomValues :
            BioResolves(i, text, r)
    \/ \E i \in TaskIds, r \in RandomValues : BioRejects(i, r)
    \/ \E i \in TaskIds, r \in RandomValues : BioTimesOut(i, r)
    \/ InsertStudentsOk
    \/ InsertStudentsError
    \/ NextRequest

SpecProcess == InitProcess /\ [][NextProcess]_vars

\* C22: a request reads nothing an earlier or concurrent request wrote in
\* process memory: whatever the process has served before, the roster
\* lookups of a request start as they do in a process that has served no
\* request yet (with the credentials check and auth.getClient()).
C22_NoSharedProcessState ==
    [][\A json \in ProcessBodies :
          PostPeople(json)
          => \A i \in 1..Len(tasks') :
                tasks'[i].step = LookupStart(env, FALSE)]_vars

\* ---------------------------------------------------------------- claims
\* The rows this call has added to the table.
NewRows == SubSeq(people, Len(peopleBefore) + 1, Len(people))

NonStudentInsertReturned ==
    Len(inserts) >= 1 /\ inserts[1].block = "nonStudents" /\ inserts[1].ok

\* The row the store created from the j-th non-student submission.
RowOfNonStudent(j) == people[Len(peopleBefore) + j]

\* The row the store created from the i-th Student submission.
RowOfStudent(i) ==
    people[Len(peopleBefore) + (IF NonStudentInsertReturned
                                THEN Len(nonStudentPayloads) ELSE 0) + i]

StudentInsertReturned ==
    \E k \in 1..Len(inserts) : inserts[k].block = "students" /\ inserts[k].ok

\* The non-student submissions a student's guardianTempIds name.
NamedBy(student) ==
    {j \in 1..Len(nonStudentPayloads) :
        nonStudentPayloads[j].tempId \in Range(OrEmpty(student.guardianTempIds))}

\* The guardian ids the spec gives a student: its direct ids and the ids
\* the store assigned to the non-student submissions it names.
ExpectedGuardianIds(student) ==
    {Num(d) : d \in Range(OrEmpty(student.guardianIds))}
    \cup {Num(RowOfNonStudent(j).id) : j \in NamedBy(student)}

\* C1: for every Student submission of a batch, the guardianIds persisted
\* for it are exactly the union of its direct guardianIds and the ids the
\* store assigned in this call to the non-student submissions its
\* guardianTempIds name, no id occurring twice, wherever the guardians sit
\* in the batch.
C1_PersistedGuardianIdsAreTheUnion ==
    StudentInsertReturned =>
        \A i \in 1..Len(studentPayloads) :
            LET items == RowOfStudent(i).guardianIds.items
            IN  /\ RowOfStudent(i).guardianIds.present
                /\ Range(items) = ExpectedGuardianIds(studentPayloads[i])
                /\ Cardinality(Range(items)) = Len(items)

\* C7: a guardianTempId that has no entry in the map never makes the import
\* fail: the student insert can still succeed, the reference is left out of
\* the student's persisted guardianIds, and the student's other guardian
\* ids are persisted unchanged.
C7_UnmappedTempIdIsLeftOut ==
    /\ (pc = "students" /\ AllDone) => ENABLED InsertStudentsOk
    /\ StudentInsertReturned =>
          \A i \in 1..Len(studentPayloads) :
              Range(RowOfStudent(i).guardianIds.items) =
                  {Num(d) : d \in Range(OrEmpty(studentPayloads[i].guardianIds))}
                  \cup {Num(tempIdToNewIdMap[t]) :
                          t \in Range(OrEmpty(studentPayloads[i].guardianTempIds))
                                \cap DOMAIN tempIdToNewIdMap}

DistinctTempIds ==
    \A a, b \in 1..Len(peopleToAdd) :
        a # b => peopleToAdd[a].tempId # peopleToAdd[b].tempId

\* C2: after the non-student insert, provided the tempIds of the batch are
\* distinct (the store returns the ids in submitted order), the map takes
\* the tempId of every non-student submission to the id of the row created
\* from that submission and has no entry for a Student submission.
C2_MapHoldsEveryNonStudent ==
    (NonStudentInsertReturned /\ DistinctTempIds) =>
        /\ \A j \in 1..Len(nonStudentPayloads) :
              /\ nonStudentPayloads[j].tempId \in DOMAIN tempIdToNewIdMap
              /\ tempIdToNewIdMap[nonStudentPayloads[j].tempId]
                     = RowOfNonStudent(j).id
        /\ \A i \in 1..Len(studentPayloads) :
              studentPayloads[i].tempId \notin DOMAIN tempIdToNewIdMap

StudentPhaseStarted ==
    \/ pc = "students"
    \/ \E k \in 1..Len(inserts) : inserts[k].block = "students"

\* C3: the student phase never starts before the non-student phase has
\* finished: while a student's guardian ids are resolved or the student
\* insert is issued, the non-student insert of the call has returned its
\* ids, its rows are stored and the map is completely built.
C3_StudentsAfterNonStudents ==
    (StudentPhaseStarted /\ Len(nonStudentPayloads) > 0) =>
        /\ NonStudentInsertReturned
        /\ Len(people) >= Len(peopleBefore) + Len(nonStudentPayloads)
        /\ tempIdToNewIdMap =
              MapInserted(EmptyObject,
                          [j \in 1..Len(nonStudentPayloads) |-> RowOfNonStudent(j).id],
                          nonStudentPayloads, 1)

\* C3 witness: students are being prepared after a non-student insert.
C3_Witness ==
    /\ pc = "students"
    /\ Len(nonStudentPayloads) > 0
    /\ NonStudentInsertReturned
    /\ \E i \in 1..Len(tasks) : tasks[i].step = "done"

StudentInsertFailed ==
    \E k \in 1..Len(inserts) : inserts[k].block = "students" /\ ~inserts[k].ok

\* C4: when the non-student insert succeeds and the student insert then
\* fails, the call answers with an error and the non-student rows stay:
\* the table holds what it held before, the batch's guardian-capable
\* profiles, and none of its students.
C4_NonStudentsStayAfterStudentFailure ==
    (NonStudentInsertReturned /\ StudentInsertFailed) =>
        /\ response.status = 500
        /\ SubSeq(people, 1, Len(peopleBefore)) = peopleBefore
        /\ Len(NewRows) = Len(nonStudentPayloads)
        /\ \A j \in 1..Len(NewRows) :
              /\ NewRows[j].category = nonStudentPayloads[j].category
              /\ NewRows[j].category # STUDENT

\* C4 witness: the non-student insert succeeded, the student insert failed.
C4_Witness ==
    /\ NonStudentInsertReturned
    /\ StudentInsertFailed
    /\ pc = "done"

\* C5: if either insert reports an error the call ends with the error
\* result (500, 'Failed to create profiles', the store's message in
\* details), never with the success acknowledgment.
C5_InsertErrorIsTheResult ==
    \A k \in 1..Len(inserts) :
        ~inserts[k].ok =>
            /\ pc = "done"
            /\ response.status = 500
            /\ response.error = "Failed to create profiles"
            /\ response.details =
                  (IF inserts[k].block = "nonStudents"
                   THEN "Supabase non-student insert error: "
                   ELSE "Supabase student insert error: ") \o StoreErrorMessage

\* C5 witness: an insert has reported an error.
C5_Witness == \E k \in 1..Len(inserts) : ~inserts[k].ok

NonStudentInsertFailed ==
    Len(inserts) >= 1 /\ inserts[1].block = "nonStudents" /\ ~inserts[1].ok

\* C6: if the non-student insert fails, the call performs no further store
\* write: no student row is inserted and the table is as before the call.
C6_NothingWrittenAfterNonStudentFailure ==
    NonStudentInsertFailed => (Len(inserts) = 1 /\ people = peopleBefore)

\* C6 witness: the non-student insert of a batch with students failed.
C6_Witness ==
    /\ NonStudentInsertFailed
    /\ Len(studentPayloads) > 0
    /\ pc = "done"

InsertsSucceeded ==
    /\ Len(peopleToAdd) > 0
    /\ Len(nonStudentPayloads) > 0 => NonStudentInsertReturned
    /\ Len(studentPayloads) > 0 => StudentInsertReturned

\* C9: whatever the Bio Generator and the Roster Lookup do, the call
\* returns the success acknowledgment once its store inserts have
\* succeeded, and an error result is only ever that of an image upload or
\* of a store insert.
C9_CollaboratorFailuresNeverFail ==
    /\ InsertsSucceeded => (pc = "done" /\ response = Created)
    /\ response.status = 500 =>
          response.details \in
              {"Failed to upload image",
               "Supabase non-student insert error: " \o StoreErrorMessage,
               "Supabase student insert error: " \o StoreErrorMessage}

\* C9 witness: a call succeeded although the Roster Lookup failed (no
\* credentials) and a bio had to fall back.
C9_Witness ==
    /\ response = Created
    /\ env.GOOGLE_SHEET_ID /\ ~env.credentials
    /\ Len(studentPayloads) > 0
    /\ \E j \in 1..Len(NewRows) :
          NewRows[j].category = STUDENT /\ NewRows[j].bio = fallbackBio

BlankTexts == {text \in BioTexts : Trim(text) = <<>>}

\* C8: every row persisted by a batch import has a non-empty bio, and when
\* the Bio Generator call throws, times out or returns empty or
\* whitespace-only text (or no text at all), the bio prepared for the row
\* is exactly the fallback string.
C8_BioIsNeverEmpty ==
    [][/\ \A j \in (Len(people) + 1)..Len(people') : people'[j].bio # <<>>
       /\ \A i \in TaskIds, r \in RandomValues :
             (\/ BioRejects(i, r)
              \/ BioTimesOut(i, r)
              \/ \E text \in BlankTexts : BioResolves(i, text, r))
                 => tasks'[i].bio = fallbackBio
       /\ \A r \in RandomValues :
             (\/ WorkerBioRejects(r)
              \/ WorkerBioWithoutText(r)
              \/ \E text \in BlankTexts : WorkerBioResolves(text, r))
                 => tasks'[Len(tasks')].bio = fallbackBio]_vars

\* C10: every batch import call eventually returns a response, even if the
\* Bio Generator or the Roster Lookup (obtaining its client included)
\* never answers.
C10_EveryCallReturns == (pc # "idle") ~> (pc = "done")

InsertionOrder == nonStudentPayloads \o studentPayloads

\* C12: a successful batch import persists exactly one new row per
\* submission: a batch of n submissions adds n rows with n distinct fresh
\* ids, the k-th of them created from the k-th submission in insertion
\* order (non-students first), and each has a non-empty bio and a non-empty
\* googleSheetId.
C12_OneRowPerSubmission ==
    response = Created =>
        /\ Len(NewRows) = Len(peopleToAdd)
        /\ Len(InsertionOrder) = Len(peopleToAdd)
        /\ \A a \in 1..Len(peopleToAdd) :
              Cardinality({k \in 1..Len(InsertionOrder) :
                              InsertionOrder[k] = peopleToAdd[a]})
                  = Cardinality({b \in 1..Len(peopleToAdd) :
                                    peopleToAdd[b] = peopleToAdd[a]})
        /\ \A k \in 1..Len(NewRows) :
              /\ NewRows[k].category = InsertionOrder[k].category
              /\ NewRows[k].bio # <<>>
              /\ NewRows[k].googleSheetId # ""
              /\ \A q \in 1..Len(peopleBefore) : peopleBefore[q].id # NewRows[k].id
              /\ \A q \in 1..Len(NewRows) : q # k => NewRows[q].id # NewRows[k].id

\* C12 witness: a batch of a student and a non-student succeeded.
C12_Witness ==
    /\ response = Created
    /\ Len(nonStudentPayloads) > 0
    /\ Len(studentPayloads) > 0
    /\ Len(NewRows) = MaxBatch

\* 'GS-' followed by exactly five decimal digits, the first not 0.
FiveDigitTokens == {"GS-" \o ToString(n) : n \in 10000..99999}

\* The roster sheet is searched for this name on behalf of callback i.
SearchName(i) ==
    FullName(studentPayloads[i].firstName, studentPayloads[i].lastName)

\* The Roster Lookup of student callback i ends without an identifier: the
\* roster is not configured, the lookup fails, or the search finds none.
LookupWithoutId(i, r) ==
    /\ pc = "students"
    /\ \/ LookupSkipped(i, r)
       \/ CredentialsMissing(i, r)
       \/ GetClientRejects(i, r)
       \/ ValuesGetRejects(i, r)
       \/ ValuesGetTimesOut(i, r)
       \/ \E rows \in Sheets :
             FindStudentId(rows, SearchName(i)) = "" /\ ValuesGetReturns(i, rows, r)

\* generateBio returns in non-student callback i, whose googleSheetId is
\* evaluated next.
NonStudentIdStep(i, r) ==
    /\ pc = "nonStudents"
    /\ \/ BioRejects(i, r)
       \/ BioTimesOut(i, r)
       \/ \E text \in BioTexts : BioResolves(i, text, r)

\* The rows an insert adds carry the googleSheetId of the insert data.
InsertKeepsGoogleSheetId ==
    \A k \in 1..(Len(people') - Len(people)) :
        people'[Len(people) + k].googleSheetId = tasks[k].googleSheetId

\* C13: whenever the Roster Lookup returns not-found or fails for a
\* student, and for every non-student, the googleSheetId put into the
\* insert data, and persisted, is 'GS-' followed by an integer in
\* 10000..99999, for every value of Math.random().
C13_SynthesizedIdHasFiveDigits ==
    [][/\ \A i \in TaskIds, r \in ManyRandomValues :
             (LookupWithoutId(i, r) \/ NonStudentIdStep(i, r)) =>
                 tasks'[i].googleSheetId \in FiveDigitTokens
       /\ InsertKeepsGoogleSheetId]_vars

\* C13 witness: with the roster configured, a student was persisted with
\* the least synthesized token.
C13_Witness ==
    /\ response = Created
    /\ env.GOOGLE_SHEET_ID
    /\ Len(studentPayloads) = 1
    /\ RowOfStudent(1).googleSheetId = "GS-10000"

\* The rows of the sheet whose trimmed, lower-cased 'first last' is the
\* student's.
MatchingRows(rows, i) ==
    {k \in 1..Len(rows) :
        ToLowerCase(Trim(rows[k].firstName) \o <<" ">> \o Trim(rows[k].lastName))
            = ToLowerCase(Trim(studentPayloads[i].firstName) \o <<" ">>
                          \o Trim(studentPayloads[i].lastName))}

FirstMatchingRow(rows, i) ==
    CHOOSE k \in MatchingRows(rows, i) : \A q \in MatchingRows(rows, i) : k <= q

\* C14: when the roster answers, a student whose name matches a roster row
\* gets the identifier of the first matching row as googleSheetId; the
\* student gets a synthesized token only when no row matches or the first
\* matching row has no identifier (or, C13, when the roster is not
\* configured or the lookup fails); and that googleSheetId is persisted.
C14_FirstMatchingRowGivesTheId ==
    [][/\ \A i \in TaskIds, rows \in Sheets, r \in ManyRandomValues :
             (pc = "students" /\ ValuesGetReturns(i, rows, r)) =>
                 IF MatchingRows(rows, i) # {}
                    /\ rows[FirstMatchingRow(rows, i)].studentId # ""
                 THEN tasks'[i].googleSheetId
                          = rows[FirstMatchingRow(rows, i)].studentId
                 ELSE tasks'[i].googleSheetId \in FiveDigitTokens
       /\ \A k \in 1..(Len(people') - Len(people)) :
             people'[Len(people) + k].googleSheetId = tasks[k].googleSheetId]_vars

\* C14 witness: a student submitted with padding and other capitals than
\* the roster's was persisted with the roster's identifier.
C14_Witness ==
    /\ response = Created
    /\ Len(studentPayloads) = 1
    /\ studentPayloads[1].firstName = <<" ", "a", "N", " ">>
    /\ RowOfStudent(1).googleSheetId = RosterId

\* C17: no row created for a non-Student submission carries guardianIds,
\* even when the submission supplied guardianIds or guardianTempIds, and
\* the submission's role is stored unchanged (missing when it had none).
C17_NonStudentRowsHaveNoGuardianIds ==
    NonStudentInsertReturned =>
        \A j \in 1..Len(nonStudentPayloads) :
            /\ RowOfNonStudent(j).category = nonStudentPayloads[j].category
            /\ ~RowOfNonStudent(j).guardianIds.present
            /\ RowOfNonStudent(j).guardianIds.items = <<>>
            /\ RowOfNonStudent(j).role = nonStudentPayloads[j].role

\* C17 witness: a non-student submitted with guardianIds, guardianTempIds
\* and a role was persisted.
C17_Witness ==
    /\ NonStudentInsertReturned
    /\ Len(nonStudentPayloads) = 1
    /\ nonStudentPayloads[1].guardianIds.present
    /\ nonStudentPayloads[1].guardianTempIds.present
    /\ nonStudentPayloads[1].role.present

\* C18: in every row created by a batch import, class is present only if
\* the row's category is Student and role is present only if the row's
\* category is Staff or Parent/Guardian, whatever optional fields the
\* submission carried.
C18_ClassOnlyForStudents ==
    \A k \in 1..Len(NewRows) :
        /\ NewRows[k].class.present => NewRows[k].category = STUDENT
        /\ NewRows[k].role.present => NewRows[k].category \in {STAFF, PARENT}

Ids(rows) == {rows[k].id : k \in 1..Len(rows)}

\* This step is a successful import of the batch that the request before it
\* imported successfully.
SecondIdenticalImport ==
    /\ response = Created
    /\ response' = Created
    /\ peopleToAdd' = peopleToAdd
    /\ Len(people') > Len(people)
    /\ Len(NewRows) = Len(peopleToAdd)

\* C15: batch import is not idempotent: when the identical batch is
\* submitted twice and both calls succeed, the second call adds a second
\* full set of rows with fresh ids next to the first set, and every
\* guardianTempId of a student of the second call is resolved to the row the
\* second call created, not to the row of the first.
C15_SecondImportAddsASecondSet ==
    [][SecondIdenticalImport =>
          /\ SubSeq(people', 1, Len(people)) = people
          /\ Len(NewRows') = Len(peopleToAdd)
          /\ Ids(NewRows') \cap Ids(people) = {}
          /\ Cardinality(Ids(NewRows')) = Len(peopleToAdd)
          /\ \A k \in 1..Len(NewRows') :
                NewRows'[k].category = NewRows[k].category
          /\ \A i \in 1..Len(studentPayloads') :
                \A j \in 1..Len(nonStudentPayloads') :
                    nonStudentPayloads'[j].tempId
                        \in Range(OrEmpty(studentPayloads'[i].guardianTempIds)) =>
                        /\ Num(NewRows'[j].id) \in
                              Range(NewRows'[Len(nonStudentPayloads') + i].guardianIds.items)
                        /\ Num(NewRows[j].id) \notin
                              Range(NewRows'[Len(nonStudentPayloads') + i].guardianIds.items)]_vars

\* C15 witness: the batch of a guardian and a student that names it has
\* been imported twice.
C15_Witness ==
    /\ response = Created
    /\ Len(people) = MaxPeople
    /\ Len(NewRows) = 2
    /\ people[2].category = people[4].category
    /\ NewRows[2].category = STUDENT
    /\ NewRows[2].guardianIds.items = <<Num(1), Num(4)>>

\* C16: after any sequence of batch imports and profile updates, every id
\* in a Student row's guardianIds is the id of an existing profile whose
\* category is Staff or Parent/Guardian.
C16_GuardianIdsNameGuardians ==
    \A k \in 1..Len(people) :
        people[k].category = STUDENT =>
            \A g \in Range(people[k].guardianIds.items) :
                /\ g.t = "number"
                /\ \E q \in 1..Len(people) :
                      people[q].id = g.v /\ people[q].category \in {STAFF, PARENT}

\* C19: a profile's category is one of Staff, Student, Parent/Guardian and,
\* like its id, never changes: no request creates a row with another
\* category, and no request changes the category or the id of an existing
\* row.
C19_CategoryAndIdNeverChange ==
    [][/\ Len(people') >= Len(people)
       /\ \A k \in 1..Len(people) :
             /\ people'[k].id = people[k].id
             /\ people'[k].category = people[k].category
       /\ \A k \in 1..Len(people') : people'[k].category \in PersonCategory]_vars

\* C21: a Student submission with no direct guardian id and no
\* guardianTempId that resolves is not rejected: its insert data carries an
\* empty guardianIds array, the store accepts the data of a batch whose
\* students are all such, and once the student insert has returned the row
\* has an empty guardianIds set and the call has answered 201.
Unresolved(student, map) ==
    /\ OrEmpty(student.guardianIds) = <<>>
    /\ \A k \in 1..Len(OrEmpty(student.guardianTempIds)) :
          ~Truthy(GetProperty(map, OrEmpty(student.guardianTempIds)[k]))

MaxNewGuardians == 1

\* crypto.randomUUID() values: one per new guardian and one for the main person
UUIDs == {"u" \o ToString(n) : n \in 1..(MaxNewGuardians + 1)}

TextInputs == {"", "Ann"}

DataUrls == {"data:image/png"}

SelectableIds == {1}

SubmitErrors ==
    [session |-> "You must be logged in to add profiles.",
     primary |-> "All fields for the primary person, including photo, are required.",
     guardian |-> "A student must have at least one existing or new guardian associated.",
     newGuardian |-> "All fields and a photo are required for each new guardian.",
     save |-> "Failed to save profiles."]

Includes(s, x) == \E i \in 1..Len(s) : s[i] = x

RECURSIVE Filter(_, _)
\* prev.filter(x => x # excluded), for a sequence of ids
Filter(s, excluded) ==
    IF s = <<>> THEN <<>>
    ELSE IF Head(s) = excluded THEN Filter(Tail(s), excluded)
    ELSE <<Head(s)>> \o Filter(Tail(s), excluded)

RECURSIVE WithoutGuardian(_, _)
WithoutGuardian(guardians, id) ==
    IF guardians = <<>> THEN <<>>
    ELSE IF Head(guardians).tempId = id THEN WithoutGuardian(Tail(guardians), id)
    ELSE <<Head(guardians)>> \o WithoutGuardian(Tail(guardians), id)

GuardianTempIds(guardians) == [i \in 1..Len(guardians) |-> guardians[i].tempId]

\* crypto.randomUUID(): a value no submission of the form carries yet.
FreshUUIDs(f) == UUIDs \ Range(GuardianTempIds(f.newGuardians))

InitForm ==
    /\ env = [GOOGLE_SHEET_ID |-> FALSE, credentials |-> FALSE]
    /\ sheets = FALSE
    /\ people = <<ExistingGuardian>>
    /\ nextId = Len(people) + 1
    /\ pc = "idle"
    /\ peopleToAdd = <<>>
    /\ nonStudentPayloads = <<>>
    /\ studentPayloads = <<>>
    /\ tempIdToNewIdMap = EmptyObject
    /\ tasks = <<>>
    /\ response = NoResponse
    /\ inserts = <<>>
    /\ peopleBefore = people
    /\ form \in {InitialForm(session) : session \in BOOLEAN}
    /\ fetched = NoRequest
    /\ repository = InitialRepository
    /\ accessControl = InitialAccessControl
    /\ users = InitialUsers
    /\ settings = {}
    /\ storage = {}
    /\ caller = NoCaller
    /\ apiRequest = NoApiRequest
    /\ authContext = InitialAuthContext

FormStep(f, request) ==
    /\ form' = f
    /\ fetched' = request
    /\ UNCHANGED <<authContext, apiRequest, caller, storage, settings, users, accessControl, repository, env, sheets, people, nextId, pc, peopleToAdd,
                   nonStudentPayloads, studentPayloads, tempIdToNewIdMap,
                   tasks, response, inserts, peopleBefore>>

\* the category select's onChange
SetCategory(c) ==
    FormStep([form EXCEPT !.category = c, !.roleOrClass = ""], fetched)

\* onChange of the inputs firstName, lastName and roleOrClass
SetText(field, value) ==
    FormStep([form EXCEPT ![field] = value], fetched)

\* handleFileChange for the primary person, once the reader has loaded
handleFileChange(dataUrl) ==
    FormStep([form EXCEPT !.image = dataUrl, !.imagePreview = dataUrl], fetched)

\* The guardian section is rendered for the category Student only.
handleGuardianSelection(guardianId) ==
    /\ form.category = STUDENT
    /\ FormStep([form EXCEPT !.selectedGuardians =
                    IF Includes(@, guardianId) THEN Filter(@, guardianId)
                    ELSE Append(@, guardianId)], fetched)

addNewGuardian(tempId) ==
    /\ form.category = STUDENT
    /\ Len(form.newGuardians) < MaxNewGuardians
    /\ FormStep([form EXCEPT !.newGuardians =
                    Append(@, [tempId |-> tempId, firstName |-> "",
                               lastName |-> "", image |-> ""])], fetched)

removeNewGuardian(id) ==
    /\ form.category = STUDENT
    /\ FormStep([form EXCEPT !.newGuardians = WithoutGuardian(@, id)], fetched)

\* updateNewGuardian for the two names, handleFileChange(e, tempId) for the
\* photo: prev.map(g => g.tempId === id ? {...g, [field]: value} : g)
updateNewGuardian(id, field, value) ==
    /\ form.category = STUDENT
    /\ FormStep([form EXCEPT !.newGuardians =
                    [i \in 1..Len(@) |->
                        IF @[i].tempId = id THEN [@[i] EXCEPT ![field] = value]
                        ELSE @[i]]], fetched)

\* resetForm keeps the session and isSaving.
Reset(f) == [InitialForm(f.session) EXCEPT !.isSaving = f.isSaving]

\* the Cancel button, disabled while saving
resetForm ==
    /\ ~form.isSaving
    /\ FormStep(Reset(form), fetched)

newGuardianPayload(f) ==
    [i \in 1..Len(f.newGuardians) |->
        [tempId |-> f.newGuardians[i].tempId, category |-> PARENT,
         firstName |-> f.newGuardians[i].firstName,
         lastName |-> f.newGuardians[i].lastName,
         image |-> f.newGuardians[i].image,
         role |-> Str("Parent/Guardian"), class |-> NoString,
         guardianIds |-> Absent, guardianTempIds |-> Absent]]

mainPersonPayload(f, tempId) ==
    [tempId |-> tempId, category |-> f.category,
     firstName |-> f.firstName, lastName |-> f.lastName,
     image |-> f.imagePreview,
     role |-> IF f.category \in {STAFF, PARENT} THEN Str(f.roleOrClass)
              ELSE NoString,
     class |-> IF f.category = STUDENT THEN Str(f.roleOrClass) ELSE NoString,
     guardianIds |-> IF f.category = STUDENT
                     THEN Arr([i \in 1..Len(f.selectedGuardians) |->
                                  Num(f.selectedGuardians[i])])
                     ELSE Absent,
     guardianTempIds |-> IF f.category = STUDENT
                         THEN Arr(GuardianTempIds(f.newGuardians))
                         ELSE Absent]

StudentGuardianCheckRemoved(f) == FALSE

\* the third early return of handleSubmit
StudentWithoutGuardian(f) ==
    /\ f.category = STUDENT
    /\ Len(f.selectedGuardians) = 0
    /\ Len(f.newGuardians) = 0

invalidNewGuardian(f) ==
    \E i \in 1..Len(f.newGuardians) :
        \/ f.newGuardians[i].firstName = ""
        \/ f.newGuardians[i].lastName = ""
        \/ f.newGuardians[i].image = ""

\* The error handleSubmit returns early with, "" when it goes on to save.
SubmitError(f) ==
    IF ~f.session THEN SubmitErrors.session
    ELSE IF f.firstName = "" \/ f.lastName = "" \/ f.roleOrClass = ""
            \/ f.image = ""
    THEN SubmitErrors.primary
    ELSE IF StudentWithoutGuardian(f) THEN SubmitErrors.guardian
    ELSE IF invalidNewGuardian(f) THEN SubmitErrors.newGuardian
    ELSE ""

\* handleSubmit up to its await of fetch.  The submit button is disabled
\* while saving.
handleSubmit(tempId) ==
    /\ ~form.isSaving
    /\ IF SubmitError(form) # ""
       THEN FormStep([form EXCEPT !.error = SubmitError(form)], fetched)
       ELSE FormStep([form EXCEPT !.error = "", !.isSaving = TRUE],
                     [sent |-> TRUE,
                      body |-> <<mainPersonPayload(form, tempId)>>
                               \o newGuardianPayload(form)])

\* The fetch settled: onSuccess() and resetForm() for an ok response, the
\* catch block otherwise, and the finally block.
FetchSettles(ok) ==
    /\ fetched.sent
    /\ FormStep(IF ok THEN [Reset(form) EXCEPT !.isSaving = FALSE]
                ELSE [form EXCEPT !.error = SubmitErrors.save,
                                  !.isSaving = FALSE],
                NoRequest)

NextForm ==
    \/ \E c \in PersonCategory : SetCategory(c)
    \/ \E field \in {"firstName", "lastName", "roleOrClass"},
          value \in TextInputs : SetText(field, value)
    \/ \E dataUrl \in DataUrls : handleFileChange(dataUrl)
    \/ \E guardianId \in SelectableIds : handleGuardianSelection(guardianId)
    \/ \E tempId \in FreshUUIDs(form) : addNewGuardian(tempId)
    \/ \E id \in UUIDs : removeNewGuardian(id)
    \/ \E id \in UUIDs, field \in {"firstName", "lastName"},
          value \in TextInputs : updateNewGuardian(id, field, value)
    \/ \E id \in UUIDs, dataUrl \in DataUrls :
          updateNewGuardian(id, "image", dataUrl)
    \/ resetForm
    \/ \E tempId \in FreshUUIDs(form) : handleSubmit(tempId)
    \/ \E ok \in BOOLEAN : FetchSettles(ok)

SpecForm == InitForm /\ [][NextForm]_vars

\* ------------------------------------------- the repository search box
\* src/src/components/IdRepository.tsx.  Time is counted in tenths of a
\* second; a timer's callback runs when the event loop gets to it, at its
\* due time or later.
MaxTime == 8

MaxKeystrokes == 3

SearchDelay == 5

SearchTerms == {"a", "ab"}

\* A faulty variant of clearTimeout that cancels nothing.  C23 does not
\* hold of it.
clearTimeoutIgnored(timers, id) == timers

\* clearTimeout(id): the timer with that id, if still pending, is gone.
\* Timer ids are positive, so the test `if (searchTimeout.current)` fails
\* only for null (0 here), which names no timer.
clearTimeout(timers, id) == {t \in timers : t.id # id}

RepositoryStep(r) ==
    /\ repository' = r
    /\ UNCHANGED <<authContext, apiRequest, caller, storage, settings, users, accessControl, form, fetched, env, sheets, people, nextId, pc,
                   peopleToAdd, nonStudentPayloads, studentPayloads,
                   tempIdToNewIdMap, tasks, response, inserts, peopleBefore>>

\* Time passes.
Tick ==
    /\ repository.now < MaxTime
    /\ RepositoryStep([repository EXCEPT !.now = @ + 1])

handleSearchInputChange(term) ==
    /\ repository.mounted
    /\ repository.nextTimer <= MaxKeystrokes
    /\ RepositoryStep(
         [repository EXCEPT
            !.searchTerm = term,
            !.timers = clearTimeout(@, repository.current)
                       \cup {[id |-> repository.nextTimer, term |-> term,
                              due |-> repository.now + SearchDelay]},
            !.current = repository.nextTimer,
            !.nextTimer = @ + 1,
            !.lastKey = repository.now,
            !.typed = TRUE])

\* The callback of window.setTimeout runs: onSearchChange(term).
SearchTimerFires(t) ==
    /\ t \in repository.timers
    /\ repository.now >= t.due
    /\ RepositoryStep(
         [repository EXCEPT
            !.timers = @ \ {t},
            !.calls = Append(@, [term |-> t.term, at |-> repository.now,
                                 mounted |-> repository.mounted])])

\* The cleanup of the useEffect.
Unmount ==
    /\ repository.mounted
    /\ RepositoryStep(
         [repository EXCEPT
            !.mounted = FALSE,
            !.timers = clearTimeout(@, repository.current)])

NextRepository ==
    \/ Tick
    \/ \E term \in SearchTerms : handleSearchInputChange(term)
    \/ \E t \in repository.timers : SearchTimerFires(t)
    \/ Unmount

InitRepository == Init /\ ~sheets /\ ~env.GOOGLE_SHEET_ID /\ ~env.credentials

SpecRepository == InitRepository /\ [][NextRepository]_vars

\* C23: onSearchChange is called only with the term typed last, only when
\* at least 500 ms have passed since the last keystroke and only while the
\* component is mounted; a call leaves no timer pending, at most one timer
\* is pending at any time, and once no timer is pending the last call made
\* is the one for the term in the box.
C23_SearchIsDebounced ==
    [][/\ repository'.calls # repository.calls
          => /\ Len(repository'.calls) = Len(repository.calls) + 1
             /\ repository'.calls[Len(repository'.calls)].term
                  = repository.searchTerm
             /\ repository.now - repository.lastKey >= SearchDelay
             /\ repository.mounted
             /\ repository'.timers = {}
       /\ Cardinality(repository'.timers) <= 1
       /\ (repository'.mounted /\ repository'.typed
             /\ repository'.timers = {})
          => /\ repository'.calls # <<>>
             /\ repository'.calls[Len(repository'.calls)].term
                  = repository'.searchTerm
             /\ repository'.calls[Len(repository'.calls)].at
                  >= repository'.lastKey + SearchDelay]_vars

C23_Witness ==
    /\ Len(repository.calls) = 1
    /\ repository.calls[1].term = "ab"
    /\ repository.nextTimer = MaxKeystrokes + 1
    /\ repository.lastKey > 0

\* C20: handleSubmit sends no request for a Student with neither a selected
\* nor a new guardian - it shows an error and leaves no fetch in flight - and
\* the first submission of every request in flight, when a Student, has
\* guardianIds and guardianTempIds of which at least one is non-empty.
C20_StudentSubmissionHasAGuardian ==
    [][/\ \A tempId \in UUIDs :
            (/\ handleSubmit(tempId)
             /\ form.category = STUDENT
             /\ form.selectedGuardians = <<>>
             /\ form.newGuardians = <<>>)
            => /\ form'.error # ""
               /\ ~form'.isSaving
               /\ fetched' = NoRequest
       /\ (fetched'.sent /\ fetched'.body[1].category = STUDENT)
          => Len(fetched'.body[1].guardianIds.items)
               + Len(fetched'.body[1].guardianTempIds.items) > 0]_vars

C20_Witness ==
    /\ form.error = SubmitErrors.guardian
    /\ form.category = STUDENT
    /\ form.selectedGuardians = <<>>
    /\ form.newGuardians = <<>>
    /\ ~fetched.sent

\* C24: in every request the form has in flight, submissions after the
\* first occur only when the first is a Student, and each of them is a
\* Parent/Guardian submission whose tempId is among the first's
\* guardianTempIds.
C24_BatchHoldsOnlyGuardiansOfMain ==
    fetched.sent
    => \A k \in 2..Len(fetched.body) :
          /\ fetched.body[1].category = STUDENT
          /\ fetched.body[k].category = PARENT
          /\ fetched.body[k].tempId
               \in Range(OrEmpty(fetched.body[1].guardianTempIds))

\* ------------------------------------------- the Access Control search
\* src/src/pages/AccessControl.tsx, for a signed-in user.
AccessTerms == {"a", "ab", "abc"}

\* The people getPeople(accessToken, 1, 10, term) resolves with.
ResultsOf(term) == [found |-> TRUE, term |-> term]

AccessStep(a) ==
    /\ accessControl' = a
    /\ UNCHANGED <<authContext, apiRequest, caller, storage, settings, users, repository, form, fetched, env, sheets, people, nextId, pc,
                   peopleToAdd, nonStudentPayloads, studentPayloads,
                   tempIdToNewIdMap, tasks, response, inserts, peopleBefore>>

\* handleSearchChange for a term of fewer than 2 characters: the else
\* branch.  The debounce timer is left as it is.
ShortTerm(a, term) ==
    [a EXCEPT !.searchTerm = term, !.isSearching = FALSE,
              !.searchResults = NoResults]

\* handleSearchChange for a longer term: debouncedSearch(term) clears the
\* pending timer and sets a new one.
LongTerm(a, term) ==
    [a EXCEPT !.searchTerm = term, !.isSearching = TRUE,
              !.timeout = [pending |-> TRUE, term |-> term]]

handleSearchChange(term) ==
    /\ accessControl.keystrokes < MaxKeystrokes
    /\ AccessStep([(IF Len(term) > 1 THEN LongTerm(accessControl, term)
                    ELSE ShortTerm(accessControl, term))
                   EXCEPT !.keystrokes = @ + 1])

\* The debounce timer fires: handleSearch(term) up to its await.
handleSearch ==
    /\ accessControl.timeout.pending
    /\ LET term == accessControl.timeout.term
       IN  AccessStep(
             IF Len(term) < 2
             THEN [accessControl EXCEPT
                     !.timeout.pending = FALSE,
                     !.searchResults = NoResults, !.isSearching = FALSE]
             ELSE [accessControl EXCEPT
                     !.timeout.pending = FALSE,
                     !.awaited = @ \cup {term}])

\* getPeople resolved: setSearchResults(people), then the finally block.
GetPeopleResolves(term) ==
    /\ term \in accessControl.awaited
    /\ AccessStep([accessControl EXCEPT
                     !.awaited = @ \ {term},
                     !.searchResults = ResultsOf(term),
                     !.isSearching = FALSE])

\* getPeople rejected: the catch block, then the finally block.
GetPeopleRejects(term) ==
    /\ term \in accessControl.awaited
    /\ AccessStep([accessControl EXCEPT
                     !.awaited = @ \ {term},
                     !.error = "Failed to search for people.",
                     !.isSearching = FALSE])

NextAccess ==
    \/ \E term \in AccessTerms : handleSearchChange(term)
    \/ handleSearch
    \/ \E term \in AccessTerms : GetPeopleResolves(term)
    \/ \E term \in AccessTerms : GetPeopleRejects(term)

InitAccess == Init /\ ~sheets /\ ~env.GOOGLE_SHEET_ID /\ ~env.credentials

SpecAccess == InitAccess /\ [][NextAccess]_vars

\* C25: once no debounce timer is pending and no search request is awaited
\* (and no search has failed), the list shows the results of the term in
\* the box: for a term of fewer than 2 characters it is empty and the
\* searching indicator is off, otherwise it holds that term's results.
C25_ResultsAreThoseOfTheTerm ==
    (/\ ~accessControl.timeout.pending
     /\ accessControl.awaited = {}
     /\ accessControl.error = "")
    => /\ ~accessControl.isSearching
       /\ accessControl.searchResults
            = IF Len(accessControl.searchTerm) < 2 THEN NoResults
              ELSE ResultsOf(accessControl.searchTerm)

\* ------------------------------------------------------ the /api routes
\* src/api/index.ts: the auth middleware of app, the admin middleware of
\* adminApp and the route handlers behind them, one request at a time.
\* A request is served in two steps, the auth middleware up to its
\* `await next()` and the rest of the chain.
Header(chars) == [present |-> TRUE, value |-> chars]

NoHeader == [present |-> FALSE, value |-> <<>>]

Bearer == <<"B", "e", "a", "r", "e", "r", " ">>

\* String.prototype.startsWith
StartsWith(chars, prefix) ==
    Len(chars) >= Len(prefix) /\ SubSeq(chars, 1, Len(prefix)) = prefix

\* Authorization headers: none, the token of u1 after a lower-case scheme,
\* Bearer with the access token of u1 or u2 and with a token nobody holds.
Authorizations ==
    {NoHeader, Header(<<"b", "e", "a", "r", "e", "r", " ", "1">>),
     Header(Bearer \o <<"1">>), Header(Bearer \o <<"2">>),
     Header(Bearer \o <<"x">>)}

\* The account a token was issued to, "" for a token nobody holds.
TokenHolder(chars) ==
    LET token == SubSeq(chars, Len(Bearer) + 1, Len(chars))
    IN  CASE token = <<"1">> -> "u1"
          [] token = <<"2">> -> "u2"
          [] OTHER -> ""

\* What supabase.auth.getUser() resolves with: an error, neither error nor
\* user, or the user.
GetUserAnswers == {"error", "noUser", "user"}

\* The routes that only read: of app (also GET /settings and GET
\* /associates, which differ in the table or columns read) and of adminApp
\* (also GET /admin/pending-users and GET /admin/diagnostics).
PublicGetRoutes == {"GET /people"}

AdminGetRoutes == {"GET /admin/users"}

\* The routes whose handler or middleware tests the caller's role.
AdminOnlyRoutes ==
    {"PUT /settings", "PUT /people/:id", "POST /admin/users/:id/confirm",
     "PUT /admin/users/:id/role", "DELETE /admin/users/:id"}
    \cup AdminGetRoutes

\* Rows the people table holds at most in this specification.
MaxApiPeople == 2

NoBody == [none |-> TRUE]

SettingsBodies ==
    {[key |-> Str("googleSheetUrl"), value |-> Str("https://sheet")],
     [key |-> NoString, value |-> Str("https://sheet")]}

DataUrl == "data:image/png;base64,AAAA"

\* Bodies of PUT /people/:id in this specification: a column to set, and
\* a new photo.
ApiUpdates ==
    {[category |-> STUDENT],
     [image |-> DataUrl, firstName |-> "Li", lastName |-> "An"]}

RoleBodies == {[role |-> r] : r \in {"admin", "user", "security", "owner"}}

ImportBodies ==
    {JsonArray(<<>>),
     JsonArray(<<[tempId |-> "t1", category |-> PARENT,
                  guardianIds |-> Absent, guardianTempIds |-> Absent,
                  role |-> Str("Parent/Guardian"), class |-> NoString]>>)}

\* :id of the people routes and of the admin user routes
PersonIdParams == {"1"}

UserIdParams == {"u1", "u2"}

\* the id column value a :id parameter selects
RowId(param) == CASE param = "1" -> 1 [] param = "2" -> 2 [] OTHER -> 0

ApiRequest(authorization, route, id, body) ==
    [route |-> route, authorization |-> authorization, id |-> id,
     body |-> body]

ApiRequests ==
    {ApiRequest(a, route, "", NoBody) :
        a \in Authorizations,
        route \in PublicGetRoutes \cup AdminGetRoutes}
    \cup {ApiRequest(a, "POST /people", "", b) :
            a \in Authorizations, b \in ImportBodies}
    \cup {ApiRequest(a, "PUT /settings", "", b) :
            a \in Authorizations, b \in SettingsBodies}
    \cup {ApiRequest(a, "PUT /people/:id", id, b) :
            a \in Authorizations, id \in PersonIdParams, b \in ApiUpdates}
    \cup {ApiRequest(a, route, id, NoBody) :
            a \in Authorizations, id \in UserIdParams,
            route \in {"POST /admin/users/:id/confirm",
                       "DELETE /admin/users/:id"}}
    \cup {ApiRequest(a, "PUT /admin/users/:id/role", id, b) :
            a \in Authorizations, id \in UserIdParams, b \in RoleBodies}

Unauthorized == [status |-> 401, error |-> "Unauthorized", details |-> ""]

InvalidToken == [status |-> 401, error |-> "Invalid token", details |-> ""]

Ok200 == [status |-> 200, error |-> "", details |-> ""]

BadRequest(error) == [status |-> 400, error |-> error, details |-> ""]

ServerError(error) ==
    [status |-> 500, error |-> error, details |-> StoreErrorMessage]

\* A request has passed the auth middleware and its handler has not
\* answered yet.
Pending == caller.present /\ response = NoResponse

\* No request is being served.
Idle == apiRequest = NoApiRequest

ApiStep(res, rows, accounts, settingRows, objects, user, req) ==
    /\ response' = res
    /\ people' = rows
    /\ users' = accounts
    /\ settings' = settingRows
    /\ storage' = objects
    /\ caller' = user
    /\ apiRequest' = req
    /\ UNCHANGED <<authContext, accessControl, repository, form, fetched, env, sheets,
                   nextId, pc, peopleToAdd, nonStudentPayloads,
                   studentPayloads, tempIdToNewIdMap, tasks, inserts,
                   peopleBefore>>

\* The handler answers and writes nothing.
Respond(res) ==
    ApiStep(res, people, users, settings, storage, caller, apiRequest)

\* A faulty variant of TokenRejected that only looks at the error.  C26
\* does not hold of it.
TokenRejectedOnErrorOnly(answer) == answer = "error"

\* if (error || !data.user)
TokenRejected(answer) == answer \in {"error", "noUser"}

\* app.use('/*'): the auth middleware up to `await next()`.  The identity
\* provider answers with the user only for the token of an existing
\* account.
Authenticate(req, answer) ==
    /\ Idle
    /\ LET header == req.authorization
           holder == TokenHolder(header.value)
       IN  IF ~header.present \/ header.value = <<>>
              \/ ~StartsWith(header.value, Bearer)
           THEN ApiStep(Unauthorized, people, users, settings, storage,
                        NoCaller, req)
           ELSE /\ answer = "user" => (holder # "" /\ users[holder].exists)
                /\ IF TokenRejected(answer)
                   THEN ApiStep(InvalidToken, people, users, settings,
                                storage, NoCaller, req)
                   ELSE ApiStep(NoResponse, people, users, settings, storage,
                                [present |-> TRUE, id |-> holder,
                                 role |-> IF holder = "" THEN NoString
                                          ELSE users[holder].role],
                                req)

\* A faulty variant of IsAdmin that lets every caller with a role pass.
\* C27 does not hold of it.
HasRole(user) == user.role.present

\* user.user_metadata?.role !== 'admin', negated
IsAdmin(user) == user.role = Str("admin")

Serving(route) == Pending /\ apiRequest.route = route

\* app.get('/settings'), app.get('/people'), app.get('/associates'): the
\* store is read and nothing is written.
GetRoute(route, storeOk) ==
    /\ Serving(route)
    /\ Respond(IF storeOk THEN Ok200
               ELSE ServerError("Failed to fetch " \o route))

\* app.post('/people'): the batch import, behind the auth middleware only.
ApiPostPeople(r, nonStudentsOk, studentsOk) ==
    /\ Serving("POST /people")
    /\ Len(people) + Len(apiRequest.body.items) <= MaxApiPeople
    /\ ImportBatch(apiRequest.body, r, nonStudentsOk, studentsOk)

\* upsert({ key, value })
Upserted(settingRows, key, value) ==
    {row \in settingRows : row.key # key} \cup {[key |-> key, value |-> value]}

\* app.put('/settings')
PutSettings(storeOk) ==
    /\ Serving("PUT /settings")
    /\ LET body == apiRequest.body
       IN  IF ~IsAdmin(caller) THEN Respond(Forbidden)
           ELSE IF ~body.key.present \/ body.key.value = ""
                   \/ ~body.value.present
           THEN Respond(BadRequest("Key and value are required"))
           ELSE IF ~storeOk THEN Respond(ServerError("Failed to update setting."))
           ELSE ApiStep(Ok200, people, users,
                        Upserted(settings, body.key.value, body.value.value),
                        storage, caller, apiRequest)

\* `avatars/${sanitizedName}-${Date.now()}.${fileExtension}`
FilePath(firstName, lastName) == "avatars/" \o firstName \o "-" \o lastName

\* app.put('/people/:id'): the admin check, the upload of a new photo, the
\* update.  An error thrown by uploadImageToStorage is not caught by the
\* handler.
ApiPutPerson(uploadOk, storeOk) ==
    /\ Serving("PUT /people/:id")
    /\ LET updateData == apiRequest.body
           id == RowId(apiRequest.id)
           uploads == "image" \in DOMAIN updateData
                      /\ updateData.image = DataUrl
           objects == IF uploads /\ uploadOk
                      THEN storage \cup {FilePath(updateData.firstName,
                                                  updateData.lastName)}
                      ELSE storage
       IN  IF ~IsAdmin(caller) THEN Respond(Forbidden)
           ELSE IF uploads /\ ~uploadOk
           THEN Respond([status |-> 500, error |-> "Internal Server Error",
                         details |-> ""])
           ELSE IF ~storeOk
           THEN ApiStep([status |-> 500, error |-> "Failed to update person",
                         details |-> StoreErrorMessage],
                        people, users, settings, objects, caller, apiRequest)
           ELSE ApiStep(Updated200,
                        [k \in 1..Len(people) |->
                            IF people[k].id = id
                            THEN Updated(people[k], updateData)
                            ELSE people[k]],
                        users, settings, objects, caller, apiRequest)

\* adminApp.get('/pending-users'), adminApp.get('/users'),
\* adminApp.get('/diagnostics'): behind the admin middleware; accounts and
\* tables are read and nothing is written.
AdminGetRoute(route, ok) ==
    /\ Serving(route)
    /\ IF ~IsAdmin(caller) THEN Respond(Forbidden)
       ELSE Respond(IF ok THEN Ok200 ELSE ServerError("Failed to list users"))

\* adminApp.post('/users/:id/confirm')
ConfirmUser(providerOk) ==
    /\ Serving("POST /admin/users/:id/confirm")
    /\ LET userId == apiRequest.id
       IN  IF ~IsAdmin(caller) THEN Respond(Forbidden)
           ELSE IF ~providerOk \/ userId \notin DOMAIN users
                   \/ ~users[userId].exists
           THEN Respond(ServerError("Failed to confirm user"))
           ELSE ApiStep(Ok200, people,
                        [users EXCEPT ![userId].confirmed = TRUE],
                        settings, storage, caller, apiRequest)

\* role !== 'admin' && role !== 'user'
InvalidRole(role) == role # "admin" /\ role # "user"

\* adminApp.put('/users/:id/role'): user_metadata becomes
\* { ...userToUpdate.user.user_metadata, role }.
PutUserRole(providerOk) ==
    /\ Serving("PUT /admin/users/:id/role")
    /\ LET userId == apiRequest.id
           role == apiRequest.body.role
       IN  IF ~IsAdmin(caller) THEN Respond(Forbidden)
           ELSE IF InvalidRole(role)
           THEN Respond(BadRequest("Invalid role specified"))
           ELSE IF userId \notin DOMAIN users \/ ~users[userId].exists
           THEN Respond(ServerError(
                    "Admin client failed to load or update failed"))
           ELSE IF ~providerOk
           THEN Respond(ServerError("Failed to update user role"))
           ELSE ApiStep(Ok200, people,
                        [users EXCEPT ![userId].role = Str(role)],
                        settings, storage, caller, apiRequest)

\* adminApp.delete('/users/:id')
DeleteUser(providerOk) ==
    /\ Serving("DELETE /admin/users/:id")
    /\ LET userId == apiRequest.id
       IN  IF ~IsAdmin(caller) THEN Respond(Forbidden)
           ELSE IF userId = caller.id
           THEN Respond(BadRequest("Admins cannot delete their own account."))
           ELSE IF ~providerOk \/ userId \notin DOMAIN users
                   \/ ~users[userId].exists
           THEN Respond(ServerError("Failed to delete user"))
           ELSE ApiStep(Ok200, people,
                        [users EXCEPT ![userId].exists = FALSE],
                        settings, storage, caller, apiRequest)

\* The response has been sent: the context of the request and the locals
\* of its handler are gone.
ApiReturns ==
    /\ ~Idle
    /\ response # NoResponse
    /\ response' = NoResponse
    /\ caller' = NoCaller
    /\ apiRequest' = NoApiRequest
    /\ peopleToAdd' = <<>>
    /\ nonStudentPayloads' = <<>>
    /\ studentPayloads' = <<>>
    /\ tempIdToNewIdMap' = EmptyObject
    /\ inserts' = <<>>
    /\ peopleBefore' = people
    /\ UNCHANGED <<authContext, users, settings, storage, accessControl, repository,
                   form, fetched, env, sheets, people, nextId, pc, tasks>>

NextApi ==
    \/ \E req \in ApiRequests, answer \in GetUserAnswers :
            Authenticate(req, answer)
    \/ \E route \in PublicGetRoutes,
          storeOk \in BOOLEAN : GetRoute(route, storeOk)
    \/ \E r \in RandomValues, nonStudentsOk \in BOOLEAN,
          studentsOk \in BOOLEAN : ApiPostPeople(r, nonStudentsOk, studentsOk)
    \/ \E storeOk \in BOOLEAN : PutSettings(storeOk)
    \/ \E uploadOk \in BOOLEAN, storeOk \in BOOLEAN :
            ApiPutPerson(uploadOk, storeOk)
    \/ \E route \in AdminGetRoutes,
          ok \in BOOLEAN : AdminGetRoute(route, ok)
    \/ \E providerOk \in BOOLEAN : ConfirmUser(providerOk)
    \/ \E providerOk \in BOOLEAN : PutUserRole(providerOk)
    \/ \E providerOk \in BOOLEAN : DeleteUser(providerOk)
    \/ ApiReturns

InitApi == InitSession

SpecApi == InitApi /\ [][NextApi]_vars

\* The tables, the bucket and the accounts are as they were.
NothingWritten ==
    /\ people' = people
    /\ users' = users
    /\ settings' = settings
    /\ storage' = storage

C27_NonAdminsGet403 ==
    [][(/\ Pending
        /\ apiRequest.route \in AdminOnlyRoutes
        /\ caller.role # Str("admin")
        /\ response' # response)
       => /\ response' = Forbidden
          /\ NothingWritten]_vars

C27_Witness ==
    /\ response = Forbidden
    /\ apiRequest.route = "PUT /people/:id"
    /\ "image" \in DOMAIN apiRequest.body
    /\ caller.role = Str("user")
    /\ storage = {}

\* ---- the User Management screen ----

\* <option value="user">, <option value="security">, <option value="admin">
AssignableRoles == {"user", "security", "admin"}

\* user.id === currentUser?.id ? <span> : <select onChange=handleRoleChange>
OffersRoleChange(userId, currentUserId) == userId # currentUserId

\* user.id !== currentUser?.id && <button onClick=setUserToDelete(user)>
OffersDelete(userId, currentUserId) == userId # currentUserId

\* The handler of an admin route answers a request of an admin.
AdminRouteAnswers(route) ==
    /\ Pending
    /\ apiRequest.route = route
    /\ IsAdmin(caller)
    /\ response' # response

\* C28: the screen offers neither a role change nor a delete on the row of
\* the signed-in admin, and no DELETE /api/admin/users/:id nor
\* PUT /api/admin/users/:id/role made by an admin with their own id
\* deletes that account or changes its role.
C28_OwnAccountIsNotModified ==
    [][/\ \A id \in DOMAIN users :
            ~OffersRoleChange(id, id) /\ ~OffersDelete(id, id)
       /\ (/\ \/ AdminRouteAnswers("DELETE /admin/users/:id")
              \/ AdminRouteAnswers("PUT /admin/users/:id/role")
           /\ apiRequest.id = caller.id)
          => users'[caller.id] = users[caller.id]]_vars

\* C29: each of user, security and admin sent by an admin for another,
\* existing user to PUT /api/admin/users/:id/role is not answered 400 and,
\* when the answer is 200, is that user's role with the user's other
\* fields and every other account as they were; any other role is answered
\* 400 and nothing is written.
C29_AssignableRolesAreAccepted ==
    [][AdminRouteAnswers("PUT /admin/users/:id/role")
       => LET userId == apiRequest.id
              role == apiRequest.body.role
          IN  IF role \in AssignableRoles
              THEN (userId # caller.id /\ userId \in DOMAIN users
                    /\ users[userId].exists)
                   => /\ response'.status # 400
                      /\ response' = Ok200
                         => users' = [users EXCEPT
                                        ![userId].role = Str(role)]
              ELSE /\ response' = BadRequest("Invalid role specified")
                   /\ NothingWritten]_vars

\* ---- the auth context ----

MaxSignOuts == 2

SessionUserIds == {"u1", "u2"}

SessionRoles == {NoString, Str("admin"), Str("security"), Str("user")}

ConfirmedAt == {NoString, Str("2024-01-01T00:00:00Z")}

\* Session | null
Sessions ==
    {NoSession} \cup
    {[present |-> TRUE,
      user |-> [id |-> id, email_confirmed_at |-> at, role |-> role]] :
        id \in SessionUserIds, at \in ConfirmedAt, role \in SessionRoles}

\* The provider of the first revision of the file: it never looks at
\* email_confirmed_at.
ConfirmationIgnored(session) == FALSE

\* session && !session.user.email_confirmed_at
Unconfirmed(session) ==
    session.present /\ ~session.user.email_confirmed_at.present

\* supabase.auth.signOut(): one more call for the client to carry out.
signOut(ac) == [ac EXCEPT !.signOuts = @ + 1]

\* handleAuthStateChange(_event, session); the setters of an unmounted
\* provider set nothing.
handleAuthStateChange(ac, session) ==
    IF Unconfirmed(session)
    THEN IF ac.mounted
         THEN [signOut(ac) EXCEPT !.session = NoSession, !.user = NoUser,
                                  !.isAdmin = FALSE, !.isSecurity = FALSE,
                                  !.loading = FALSE]
         ELSE signOut(ac)
    ELSE IF ac.mounted
         THEN LET currentUser == IF session.present THEN session.user
                                 ELSE NoUser
                  userRole == currentUser.role
              IN  [ac EXCEPT !.session = session, !.user = currentUser,
                             !.isAdmin = (userRole = Str("admin")),
                             !.isSecurity = (userRole = Str("security")),
                             !.loading = FALSE]
         ELSE ac

AuthStep(ac) ==
    /\ ac.signOuts <= MaxSignOuts
    /\ authContext' = ac
    /\ UNCHANGED <<env, sheets, people, nextId, pc, peopleToAdd,
                   nonStudentPayloads, studentPayloads, tempIdToNewIdMap,
                   tasks, response, inserts, peopleBefore, form, fetched,
                   repository, accessControl, users, settings, storage,
                   caller, apiRequest>>

\* supabase.auth.getSession().then(({ data: { session } }) =>
\*     handleAuthStateChange('INITIAL_SESSION', session))
GetSessionResolves ==
    /\ authContext.getSession
    /\ AuthStep(handleAuthStateChange(
           [authContext EXCEPT !.getSession = FALSE], authContext.stored))

\* The client has a new session (sign-in, token refresh, user update, a
\* sign-out elsewhere) and tells its subscribers.
AuthEvent(session) ==
    LET ac == [authContext EXCEPT !.stored = session]
    IN  AuthStep(IF ac.mounted THEN handleAuthStateChange(ac, session)
                 ELSE ac)

\* logout = async () => { await supabase.auth.signOut(); }
logout ==
    /\ authContext.mounted
    /\ AuthStep(signOut(authContext))

\* The client carries out a signOut: its session is gone and the
\* subscribers are told SIGNED_OUT with no session.
SignOutCompletes ==
    /\ authContext.signOuts > 0
    /\ LET ac == [authContext EXCEPT !.signOuts = @ - 1,
                                     !.stored = NoSession]
       IN  AuthStep(IF ac.mounted THEN handleAuthStateChange(ac, NoSession)
                    ELSE ac)

\* return () => subscription.unsubscribe()
AuthUnmount ==
    /\ authContext.mounted
    /\ AuthStep([authContext EXCEPT !.mounted = FALSE])

NextAuth ==
    \/ GetSessionResolves
    \/ \E session \in Sessions : AuthEvent(session)
    \/ logout
    \/ SignOutCompletes
    \/ AuthUnmount

InitAuth == Init /\ ~sheets /\ ~env.GOOGLE_SHEET_ID /\ ~env.credentials

SpecAuth == InitAuth /\ [][NextAuth]_vars

\* handleAuthStateChange is called with this session in this step.
HandlerCalledWith(session) ==
    \/ AuthEvent(session)
    \/ GetSessionResolves /\ session = authContext.stored
    \/ SignOutCompletes /\ session = NoSession

\* C30: when the handler of a mounted provider is called with a session
\* whose user has no email_confirmed_at, one more signOut is requested,
\* session and user are null and isAdmin and isSecurity are false; when it
\* is called with any other session (or none), session is that session,
\* user its user, and isAdmin / isSecurity say whether its
\* user_metadata.role is 'admin' / 'security'; and the session the context
\* holds is never one of a user without email_confirmed_at.
C30_UnconfirmedSessionIsNeverExposed ==
    [][/\ authContext'.session.present
          => authContext'.session.user.email_confirmed_at.present
       /\ \A session \in Sessions :
            (authContext.mounted /\ HandlerCalledWith(session))
            => IF session.present
                  /\ ~session.user.email_confirmed_at.present
               THEN /\ authContext'.signOuts = authContext.signOuts + 1
                    /\ authContext'.session = NoSession
                    /\ authContext'.user = NoUser
                    /\ ~authContext'.isAdmin
                    /\ ~authContext'.isSecurity
               ELSE /\ authContext'.session = session
                    /\ authContext'.user = session.user
                    /\ authContext'.isAdmin
                       <=> (session.present
                            /\ session.user.role = Str("admin"))
                    /\ authContext'.isSecurity
                       <=> (session.present
                            /\ session.user.role = Str("security"))]_vars

\* The client holds the session of an unconfirmed admin, a signOut is
\* requested, and the context holds no session and no role.
C30_Witness ==
    /\ authContext.mounted
    /\ ~authContext.loading
    /\ authContext.stored.present
    /\ ~authContext.stored.user.email_confirmed_at.present
    /\ authContext.stored.user.role = Str("admin")
    /\ authContext.signOuts = 1
    /\ authContext.session = NoSession
    /\ ~authContext.isAdmin

====
